---- MODULE Spec2Model ----
(***************************************************************************)
(* Scrape-and-reconcile pipeline of the NEPSE scraper                      *)
(* (scrapers/data_processor.py, scrapers/unofficial_client_final.py,       *)
(* scrapers/models.py, scrapers/tasks.py, scrapers/views.py).              *)
(*                                                                         *)
(* The store is the three tables Company, StockData and MarketStatus.      *)
(* StockData and MarketStatus are bags of rows (a table is a multiset once *)
(* the surrogate id is dropped), so that a duplicate row is representable. *)
(* The wall clock is an index into a finite timeline of instants in        *)
(* Asia/Kathmandu time: for every day 0..MaxDay the instants of TimePoints.*)
(***************************************************************************)
EXTENDS Integers, Sequences, FiniteSets, Bags, TLC

VARIABLES now, companies, stock, market, last, wk, ncycles, nmaint, daily, resp

vars == <<now, companies, stock, market, last, wk, ncycles, nmaint, daily, resp>>

(***************************************************************************)
(* Bounds of the model.                                                    *)
(***************************************************************************)
MaxDay == 1

MaxCycles == 2

MaxMaint == 1

(***************************************************************************)
(* Program constants.                                                      *)
(***************************************************************************)
MarketOpenHour == 11

MarketCloseHour == 15

FixedBucketTime == 55800

MaxAttempts == 3

ProcessorMaxAttempts == 3

NepalUtcOffset == 20700

SecondsPerDay == 86400

StaleSeconds == 3600

(***************************************************************************)
(* The clock.  TimePoints are the seconds since local midnight the model   *)
(* visits on a trading day: midnight, the second before the market opens, the   *)
(* opening second, the last second before the close, the closing second,   *)
(* the second after it, and a second more than two hours after the close.  *)
(***************************************************************************)
TimePoints == <<0, 39599, 39600, 53999, 54000, 54001, 61201>>

\* on a day without trading every instant is classified alike: midnight and noon
RestPoints == <<0, 43200>>

\* datetime.weekday(): Monday = 0 ... Sunday = 6; day 0 of the model is a Thursday
Weekday(d) == (d + 3) % 7

HourOf(tod) == tod \div 3600

(***************************************************************************)
(* Session classification.                                                 *)
(***************************************************************************)
TradingWeekdays == {6, 0, 1, 2, 3}

IsTradingDay(d) == Weekday(d) \in TradingWeekdays

PointsOf(d) == IF IsTradingDay(d) THEN TimePoints ELSE RestPoints

RECURSIVE TimelineFrom(_)
TimelineFrom(d) ==
    IF d > MaxDay THEN <<>>
    ELSE [k \in 1..Len(PointsOf(d)) |-> [day |-> d, tod |-> PointsOf(d)[k]]]
         \o TimelineFrom(d + 1)

Timeline == TimelineFrom(0)

Horizon == Len(Timeline)

Instants == 0 .. (Horizon - 1)

DayOf(i) == Timeline[i + 1].day

TodOf(i) == Timeline[i + 1].tod

AbsSeconds(i) == DayOf(i) * SecondsPerDay + TodOf(i)

\* timezone.now().date(): the date of the aware UTC datetime
UtcDate(i) == (AbsSeconds(i) - NepalUtcOffset + SecondsPerDay) \div SecondsPerDay - 1

DetermineMarketSession_InclusiveClose(d, tod) ==
    IF Weekday(d) \in TradingWeekdays
    THEN IF MarketOpenHour * 3600 <= tod /\ tod <= MarketCloseHour * 3600
         THEN "regular"
         ELSE IF HourOf(tod) >= MarketCloseHour
              THEN "after_hours"
              ELSE "pre_market"
    ELSE "weekend"

DetermineMarketSession(d, tod) ==
    IF Weekday(d) \in TradingWeekdays
    THEN IF MarketOpenHour <= HourOf(tod) /\ HourOf(tod) < MarketCloseHour
         THEN "regular"
         ELSE IF HourOf(tod) >= MarketCloseHour
              THEN "after_hours"
              ELSE "pre_market"
    ELSE "weekend"

NewProcessor(i, clientOk) ==
    [ nepal_now      |-> i,
      scrape_date    |-> DayOf(i),
      scrape_time    |-> TodOf(i),
      market_session |-> DetermineMarketSession(DayOf(i), TodOf(i)),
      is_trading_day |-> IsTradingDay(DayOf(i)),
      client         |-> clientOk ]

(***************************************************************************)
(* The data source.  A market snapshot gives each listed symbol a quote or *)
(* none.  A quote is the item the library returns for the symbol: the      *)
(* symbol text, the name, the percentage change and the last traded price  *)
(* it carries, and the list (gainers or losers) the library puts it in.    *)
(* An optional value is a set with at most one element ({} is None).       *)
(***************************************************************************)
SymbolOrder == <<"AAA", "BBB">>

Symbols == { SymbolOrder[k] : k \in 1..Len(SymbolOrder) }

None == {}

\* the percentage change the source quotes for a symbol when it quotes it
\* (tenths of a percent): AAA is a riser, BBB a faller
QuoteOf(s) == IF s = "AAA" THEN 10 ELSE -10

\* the last traded price the source quotes for a symbol
LtpOf(s) == IF s = "AAA" THEN 100 ELSE 200

\* the item of a well-formed answer
StdQuote(s) ==
    [ sym  |-> s,
      name |-> None,
      list |-> IF QuoteOf(s) > 0 THEN "gainers" ELSE "losers",
      pct  |-> {QuoteOf(s)},
      ltp  |-> {LtpOf(s)} ]

Snapshots == { m \in [Symbols -> {None} \cup { {StdQuote(s)} : s \in Symbols }] :
                 \A s \in Symbols : m[s] \subseteq {StdQuote(s)} }

IsRiser(m, s) == \E q \in m[s] : q.list = "gainers"

IsFaller(m, s) == \E q \in m[s] : q.list = "losers"

RawItem(m, s) ==
    LET q == CHOOSE q \in m[s] : TRUE
    IN  [symbol |-> q.sym, name |-> q.name, percentageChange |-> q.pct, ltp |-> q.ltp]

RECURSIVE RawList(_, _, _)
RawList(m, k, up) ==
    IF k > Len(SymbolOrder) THEN <<>>
    ELSE LET s == SymbolOrder[k]
             take == IF up THEN IsRiser(m, s) ELSE IsFaller(m, s)
         IN  (IF take THEN <<RawItem(m, s)>> ELSE <<>>) \o RawList(m, k + 1, up)

GetTopGainers(m) == RawList(m, 1, TRUE)

GetTopLosers(m) == RawList(m, 1, FALSE)

NonEmptySnapshots == { m \in Snapshots : \E s \in Symbols : m[s] # None }

\* the symbol in lower case, as a source may spell it
LowerOf(s) ==
    CASE s = "AAA" -> "aaa"
      [] s = "BBB" -> "bbb"
      [] OTHER     -> s

\* items a source may also return: the symbol in lower case, no symbol, a
\* company name, a percentage change of zero, no last traded price
OddQuotes(s) ==
    { [StdQuote(s) EXCEPT !.sym = LowerOf(s)],
      [StdQuote(s) EXCEPT !.sym = ""],
      [StdQuote(s) EXCEPT !.name = {"Renamed"}],
      [StdQuote(s) EXCEPT !.pct = {0}],
      [StdQuote(s) EXCEPT !.ltp = None] }

\* answers in which one symbol has such an item and the others a well-formed one
OddSnapshots ==
    { m \in [Symbols -> { {q} : q \in UNION { OddQuotes(s) \cup {StdQuote(s)} : s \in Symbols } }] :
        /\ \A s \in Symbols : m[s] \subseteq OddQuotes(s) \cup {StdQuote(s)}
        /\ Cardinality({ s \in Symbols : m[s] # {StdQuote(s)} }) = 1 }

\* str.strip().upper() on the symbols the model uses
Upper(s) ==
    CASE s = "aaa" -> "AAA"
      [] s = "bbb" -> "BBB"
      [] OTHER     -> s

\* _parse_number: None stays None, a number is returned as a float
ParseNumber(v) == v

\* the 'or' chain over candidate field names: a falsy value (None, 0) is skipped
FirstTruthy(v) == IF v = {0} THEN None ELSE v

\* name = item.get('securityName') or ... or symbol
NameOrSymbol(name, symbol) == IF name = None THEN symbol ELSE CHOOSE n \in name : TRUE

FormatStockData(item, is_gainer) ==
    LET symbol == Upper(item.symbol)
    IN  IF symbol = "" THEN <<>>
        ELSE << [ symbol           |-> symbol,
                  securityName     |-> NameOrSymbol(item.name, symbol),
                  ltp              |-> ParseNumber(FirstTruthy(item.ltp)),
                  percentageChange |-> ParseNumber(FirstTruthy(item.percentageChange)),
                  is_gainer        |-> is_gainer ] >>

RECURSIVE FormatAll(_, _)
FormatAll(items, is_gainer) ==
    IF items = <<>> THEN <<>>
    ELSE FormatStockData(Head(items), is_gainer) \o FormatAll(Tail(items), is_gainer)

EmptyPriceData == [gainers |-> <<>>, losers |-> <<>>, emergency |-> FALSE, attempts |-> 0]

EmergencyItem(s, n, l, p, g) ==
    [ symbol |-> s, securityName |-> n, ltp |-> {l}, percentageChange |-> {p},
      is_gainer |-> g ]

\* the percentage changes 2.5, 1.8, 0.5, -1.5, -0.8 in tenths of a percent
GetEmergencyData ==
    [ gainers   |-> << EmergencyItem("NICA", "NIC ASIA Bank", 390, 25, TRUE),
                       EmergencyItem("NBL", "Nepal Bank Limited", 220, 18, TRUE),
                       EmergencyItem("NTC", "Nepal Telecom", 680, 5, TRUE) >>,
      losers    |-> << EmergencyItem("SHL", "Soaltee Hotel Limited", 310, -15, FALSE),
                       EmergencyItem("CHCL", "Chilime Hydropower", 420, -8, FALSE) >>,
      emergency |-> TRUE,
      attempts  |-> MaxAttempts ]

EmergencySymbols == {"NICA", "NBL", "NTC", "SHL", "CHCL"}

(***************************************************************************)
(* get_todays_price_data.  outs[k] is what the library does on attempt k:  *)
(* "raise", "empty" (no lists) or "data" (the lists of snapshot m).        *)
(* attempts counts the library attempts made (history).                    *)
(***************************************************************************)
AttemptOutcomes == {"raise", "empty", "data"}

RECURSIVE ClientAttempt(_, _, _)
ClientAttempt(outs, m, attempt) ==
    IF attempt > MaxAttempts THEN GetEmergencyData
    ELSE IF outs[attempt] = "data"
         THEN LET g == FormatAll(GetTopGainers(m), TRUE)
                  l == FormatAll(GetTopLosers(m), FALSE)
              IN  IF g # <<>> \/ l # <<>>
                  THEN [gainers |-> g, losers |-> l, emergency |-> FALSE,
                        attempts |-> attempt]
                  ELSE ClientAttempt(outs, m, attempt + 1)
         ELSE ClientAttempt(outs, m, attempt + 1)

GetTodaysPriceData(clientOk, outs, m) ==
    IF ~clientOk THEN EmptyPriceData
    ELSE ClientAttempt(outs, m, 1)

(***************************************************************************)
(* Company table.  A row is [symbol, name]; symbol is unique.              *)
(***************************************************************************)
CompanyExists(comps, symbol) == \E c \in comps : c.symbol = symbol

\* Company.objects.update_or_create(symbol=..., defaults={'name': ...})
CompanyUpdateOrCreate(comps, symbol, name) ==
    { c \in comps : c.symbol # symbol } \cup {[symbol |-> symbol, name |-> name]}

CompanyGetOrCreate_AlwaysInsert(comps, symbol, name) ==
    comps \cup {[symbol |-> symbol, name |-> name]}

\* Company.objects.get_or_create + the rename of an existing company
CompanyGetOrCreate(comps, symbol, name) ==
    IF CompanyExists(comps, symbol)
    THEN { IF c.symbol = symbol THEN [c EXCEPT !.name = name] ELSE c : c \in comps }
    ELSE comps \cup {[symbol |-> symbol, name |-> name]}

Security(s) == [symbol |-> s, securityName |-> s]

RECURSIVE ListedSecurities(_)
ListedSecurities(k) ==
    IF k > Len(SymbolOrder) THEN <<>>
    ELSE <<Security(SymbolOrder[k])>> \o ListedSecurities(k + 1)

RECURSIVE UniqueSecurities(_, _)
UniqueSecurities(items, seen) ==
    IF items = <<>> THEN <<>>
    ELSE LET s == Head(items).symbol
         IN  IF s # "" /\ s \notin seen
             THEN <<[symbol |-> s, securityName |-> Head(items).securityName]>> \o UniqueSecurities(Tail(items), seen \cup {s})
             ELSE UniqueSecurities(Tail(items), seen)

\* secResp: what getSecurityList does ("list" or "raise"); fbOuts, m: the
\* library's behaviour during the fallback call of get_todays_price_data
GetSecurityMasterList(clientOk, secResp, fbOuts, m) ==
    IF ~clientOk THEN <<>>
    ELSE IF secResp = "list" THEN ListedSecurities(1)
         ELSE LET pd == GetTodaysPriceData(clientOk, fbOuts, m)
              IN  UniqueSecurities(pd.gainers \o pd.losers, {})

RECURSIVE UpdateEach(_, _)
UpdateEach(comps, secs) ==
    IF secs = <<>> THEN comps
    ELSE LET symbol == Upper(Head(secs).symbol)
         IN  IF symbol = "" THEN UpdateEach(comps, Tail(secs))
             ELSE UpdateEach(CompanyUpdateOrCreate(comps, symbol, Head(secs).securityName),
                             Tail(secs))

\* dbFails: the company table cannot be written (the outer except returns 0, 0)
UpdateCompanies(comps, clientOk, secResp, fbOuts, m, dbFails) ==
    IF dbFails THEN comps
    ELSE UpdateEach(comps, GetSecurityMasterList(clientOk, secResp, fbOuts, m))

(***************************************************************************)
(* StockData table.  unique_together = company, scrape_date, scrape_time,  *)
(* data_source.                                                            *)
(***************************************************************************)
SameIdentity(r, company, date, time, source) ==
    /\ r.company = company
    /\ r.scrape_date = date
    /\ r.scrape_time = time
    /\ r.data_source = source

\* StockData.objects.filter(company, scrape_date, scrape_time, data_source).exists()
ExistsRecord(st, company, date, time, source) ==
    \E r \in BagToSet(st) : SameIdentity(r, company, date, time, source)

UniqueTogether_Missing(st, row) == TRUE

\* the constraint the database checks on INSERT
UniqueTogether(st, row) ==
    ~ExistsRecord(st, row.company, row.scrape_date, row.scrape_time, row.data_source)

\* stock_record.save(): the insert, or IntegrityError (ok = FALSE)
InsertStockData(st, row) ==
    IF UniqueTogether(st, row)
    THEN [ok |-> TRUE, stock |-> st (+) SetToBag({row})]
    ELSE [ok |-> FALSE, stock |-> st]

\* _parse_decimal: None stays None, a number is returned as a float
ParseDecimal(v) == v

StockRow(proc, item, symbol, source, time) ==
    [ company           |-> symbol,
      symbol            |-> symbol,
      last_traded_price |-> ParseDecimal(item.ltp),
      percentage_change |-> ParseDecimal(item.percentageChange),
      scrape_date       |-> proc.scrape_date,
      scrape_time       |-> time,
      data_source       |-> source,
      is_closing_data   |-> (source \in {"closing", "historical"}) ]

SaveStockRecord_Upsert(comps, st, proc, item, source, time, saveFails) ==
    LET symbol == Upper(item.symbol)
        row    == StockRow(proc, item, symbol, source, time)
        others == { r \in BagToSet(st) :
                      ~SameIdentity(r, symbol, proc.scrape_date, time, source) }
    IN  [ companies |-> CompanyGetOrCreate(comps, symbol, item.securityName),
          stock |-> SetToBag(others) (+) SetToBag({row}),
          saved |-> TRUE ]

\* _save_stock_record.  saveFails: stock_record.save() raises a database error.
\* The result carries the tables and the returned flag.
SaveStockRecord(comps, st, proc, item, source, time, saveFails) ==
    LET symbol == Upper(item.symbol)
    IN  IF symbol = ""
        THEN [companies |-> comps, stock |-> st, saved |-> FALSE]
        ELSE LET comps2 == CompanyGetOrCreate(comps, symbol, item.securityName)
             IN  IF ExistsRecord(st, symbol, proc.scrape_date, time, source)
                 THEN [companies |-> comps2, stock |-> st, saved |-> FALSE]
                 ELSE IF saveFails
                      THEN [companies |-> comps2, stock |-> st, saved |-> FALSE]
                      ELSE LET ins == InsertStockData(st, StockRow(proc, item, symbol, source, time))
                           IN  [companies |-> comps2, stock |-> ins.stock, saved |-> ins.ok]

\* the two loops of execute_24x7_scraping over gainers and losers: items is
\* gainers \o losers, k the position of Head(items) in it, failAt the
\* positions whose save raises.  attempted counts the calls (history).
RECURSIVE SaveLoop_AbortsOnFailure(_, _, _, _, _, _, _, _)
SaveLoop_AbortsOnFailure(comps, st, proc, items, source, time, k, failAt) ==
    IF items = <<>>
    THEN [companies |-> comps, stock |-> st, saved_count |-> 0, attempted |-> 0]
    ELSE LET one == SaveStockRecord(comps, st, proc, Head(items), source, time, k \in failAt)
         IN  IF k \in failAt
             THEN [companies |-> one.companies, stock |-> one.stock,
                   saved_count |-> 0, attempted |-> 1]
             ELSE LET rest == SaveLoop_AbortsOnFailure(one.companies, one.stock, proc,
                                  Tail(items), source, time, k + 1, failAt)
                  IN  [rest EXCEPT !.saved_count = @ + (IF one.saved THEN 1 ELSE 0),
                                   !.attempted = @ + 1]

RECURSIVE SaveLoop(_, _, _, _, _, _, _, _)
SaveLoop(comps, st, proc, items, source, time, k, failAt) ==
    IF items = <<>>
    THEN [companies |-> comps, stock |-> st, saved_count |-> 0, attempted |-> 0]
    ELSE LET one  == SaveStockRecord(comps, st, proc, Head(items), source, time, k \in failAt)
             rest == SaveLoop(one.companies, one.stock, proc, Tail(items), source, time,
                              k + 1, failAt)
         IN  [rest EXCEPT !.saved_count = @ + (IF one.saved THEN 1 ELSE 0),
                          !.attempted = @ + 1]

(***************************************************************************)
(* MarketStatus table.  date is unique.                                    *)
(***************************************************************************)
MarketRowsFor(mk, date) == { r \in BagToSet(mk) : r.date = date }

MarketUpdateOrCreate_AlwaysInsert(mk, date, open, at) ==
    mk (+) SetToBag({[date |-> date, is_market_open |-> open, last_scraped |-> at]})

\* MarketStatus.objects.update_or_create(date=..., defaults={...})
MarketUpdateOrCreate(mk, date, open, at) ==
    IF MarketRowsFor(mk, date) = {}
    THEN mk (+) SetToBag({[date |-> date, is_market_open |-> open, last_scraped |-> at]})
    ELSE LET old == CHOOSE r \in MarketRowsFor(mk, date) : TRUE
         IN  (mk (-) SetToBag({old}))
             (+) SetToBag({[old EXCEPT !.is_market_open = open, !.last_scraped = at]})

UpdateMarketStatus_IgnoresSession(mk, proc, has_data, at, dbFails) ==
    IF dbFails THEN [market |-> mk, raised |-> FALSE]
    ELSE [ market |-> MarketUpdateOrCreate(mk, proc.scrape_date, has_data, at),
           raised |-> FALSE ]

UpdateMarketStatus_NoHandler(mk, proc, has_data, at, dbFails) ==
    IF dbFails THEN [market |-> mk, raised |-> TRUE]
    ELSE [ market |-> MarketUpdateOrCreate(mk, proc.scrape_date,
                          proc.market_session = "regular" /\ has_data, at),
           raised |-> FALSE ]

\* _update_market_status.  dbFails: update_or_create raises; the handler logs
\* it and returns False, so nothing is raised to the caller.
UpdateMarketStatus(mk, proc, has_data, at, dbFails) ==
    IF dbFails THEN [market |-> mk, raised |-> FALSE]
    ELSE [ market |-> MarketUpdateOrCreate(mk, proc.scrape_date,
                          proc.market_session = "regular" /\ has_data, at),
           raised |-> FALSE ]

(***************************************************************************)
(* execute_24x7_scraping.                                                  *)
(***************************************************************************)
\* the retry loop of execute_24x7_scraping around client.get_todays_price_data;
\* assigned = FALSE is price_data = None.  The client answers every call of one
\* cycle from the same library behaviour (outs, m).
RECURSIVE ProcessorFetch(_, _, _, _, _)
ProcessorFetch(clientOk, outs, m, attempt, prev) ==
    IF attempt > ProcessorMaxAttempts THEN prev
    ELSE LET pd == GetTodaysPriceData(clientOk, outs, m)
         IN  IF pd.gainers # <<>> \/ pd.losers # <<>>
             THEN [assigned |-> TRUE, data |-> pd, calls |-> attempt]
             ELSE ProcessorFetch(clientOk, outs, m, attempt + 1,
                                 [assigned |-> TRUE, data |-> pd, calls |-> attempt])

NoPriceData == [assigned |-> FALSE, data |-> EmptyPriceData, calls |-> 0]

\* not price_data: None or an empty dict; the client's dict always has two keys
Falsy(fetched) == ~fetched.assigned

DataSourceFor_LiveAfterHours(session) ==
    IF session \in {"regular", "after_hours"} THEN "live" ELSE "historical"

DataSourceFor(session) == IF session = "regular" THEN "live" ELSE "historical"

BucketTimeFor_NoFixedTime(proc) == proc.scrape_time

BucketTimeFor(proc) ==
    IF proc.market_session = "regular" THEN proc.scrape_time ELSE FixedBucketTime

NoFaults == [company |-> FALSE, failAt |-> {}, market |-> FALSE]

EarlyResultFields == {"success", "message", "companies_updated", "records_saved"}

FullResultFields ==
    {"success", "companies_updated", "records_saved", "data_source_used",
     "market_session", "is_trading_day", "timestamp", "scrape_date", "scrape_time",
     "message"}

Execute(comps, st, mk, proc, secResp, fbOuts, outs, m, faults) ==
    LET comps1  == UpdateCompanies(comps, proc.client, secResp, fbOuts, m, faults.company)
        fetched == ProcessorFetch(proc.client, outs, m, 1, NoPriceData)
    IN  IF Falsy(fetched)
        THEN [ companies |-> comps1, stock |-> st, market |-> mk,
               raised |-> FALSE, fields |-> EarlyResultFields,
               success |-> FALSE, records_saved |-> 0,
               data_source_used |-> "unknown", message |-> "No price data available",
               batch |-> <<>>, emergency |-> FALSE, attempted |-> 0,
               status_updated |-> FALSE ]
        ELSE LET source == DataSourceFor(proc.market_session)
                 time   == BucketTimeFor(proc)
                 items  == fetched.data.gainers \o fetched.data.losers
                 loop   == SaveLoop(comps1, st, proc, items, source, time, 1, faults.failAt)
                 ms     == UpdateMarketStatus(mk, proc, loop.saved_count > 0,
                                              proc.nepal_now, faults.market)
             IN  [ companies |-> loop.companies, stock |-> loop.stock,
                   market |-> ms.market,
                   raised |-> ms.raised, fields |-> FullResultFields,
                   success |-> loop.saved_count > 0,
                   records_saved |-> loop.saved_count,
                   data_source_used |-> source, message |-> "Scraped records",
                   batch |-> items, emergency |-> fetched.data.emergency,
                   attempted |-> loop.attempted,
                   status_updated |-> TRUE ]

(***************************************************************************)
(* State.  last is the record of the most recent completed cycle: what     *)
(* execute_24x7_scraping returned, plus history fields about the cycle     *)
(* (what it fetched, how the tables stood before it).                      *)
(***************************************************************************)
BatchSymbols(items) == { Upper(items[k].symbol) : k \in 1..Len(items) }

DistinctSymbols(items) ==
    \A j, k \in 1..Len(items) : j # k => Upper(items[j].symbol) # Upper(items[k].symbol)

BucketRows(st, date, time, source) ==
    { r \in BagToSet(st) :
        r.scrape_date = date /\ r.scrape_time = time /\ r.data_source = source }

NoCycle ==
    [ valid |-> FALSE, at |-> 0, date |-> 0, time |-> 0, session |-> "none",
      is_trading_day |-> FALSE,
      source |-> "none", bucket_time |-> 0, batch |-> <<>>, emergency |-> FALSE,
      raised |-> FALSE, fields |-> {}, success |-> FALSE, records_saved |-> 0,
      message |-> "none", attempted |-> 0, status_updated |-> FALSE,
      rows_before |-> 0, unchanged |-> TRUE, fresh |-> FALSE, repeat |-> FALSE,
      same_session |-> FALSE, covered |-> FALSE, prev_saved |-> 0,
      prev_fresh |-> FALSE, faults |-> NoFaults ]

CycleRecord(proc, ex, faults) ==
    LET source == DataSourceFor(proc.market_session)
        time   == BucketTimeFor(proc)
    IN  [ valid |-> TRUE, at |-> proc.nepal_now,
          date |-> proc.scrape_date, time |-> proc.scrape_time,
          session |-> proc.market_session, is_trading_day |-> proc.is_trading_day,
          source |-> source, bucket_time |-> time,
          batch |-> ex.batch, emergency |-> ex.emergency,
          raised |-> ex.raised, fields |-> ex.fields, success |-> ex.success,
          records_saved |-> ex.records_saved, message |-> ex.message,
          attempted |-> ex.attempted, status_updated |-> ex.status_updated,
          rows_before |-> BagCardinality(stock),
          unchanged |-> (ex.stock = stock),
          fresh |-> (BucketRows(stock, proc.scrape_date, time, source) = {}),
          repeat |-> ( /\ last.valid
                       /\ last.batch = ex.batch
                       /\ last.date = proc.scrape_date
                       /\ last.bucket_time = time
                       /\ last.source = source ),
          same_session |-> ( /\ last.valid
                             /\ last.date = proc.scrape_date
                             /\ last.session = proc.market_session ),
          covered |-> (BatchSymbols(ex.batch) \subseteq BatchSymbols(last.batch)),
          prev_saved |-> last.records_saved,
          prev_fresh |-> last.fresh,
          faults |-> faults ]

Workers == {1, 2}

IdleWorker ==
    [ pc |-> "idle", proc |-> NewProcessor(0, FALSE), source |-> "none",
      bucket_time |-> 0, items |-> <<>>, k |-> 1, existing |-> FALSE,
      saved_count |-> 0, skipped |-> 0, conflicts |-> 0,
      overlapped |-> FALSE, inserted |-> {} ]

\* library behaviours over the attempts of one call: data at once; an empty
\* answer, then a raise, then data; never data (raises and an empty answer)
OutcomeSeqs ==
    { [k \in 1..MaxAttempts |-> "data"],
      [k \in 1..MaxAttempts |-> IF k = 1 THEN "empty" ELSE IF k = 2 THEN "raise" ELSE "data"],
      [k \in 1..MaxAttempts |-> IF k = 2 THEN "empty" ELSE "raise"] }

\* the behaviours in which the library answers with data
DataSeqs == { outs \in OutcomeSeqs : \E k \in 1..MaxAttempts : outs[k] = "data" }

\* getSecurityList answers when the library's first request of the cycle does
SecurityResponseOf(outs) == IF outs[1] = "data" THEN "list" ELSE "raise"

\* no request answered yet
NoResponse == [view |-> "none"]

Init ==
    /\ now = 0
    /\ companies = {}
    /\ stock = EmptyBag
    /\ market = EmptyBag
    /\ last = NoCycle
    /\ wk = [w \in Workers |-> IdleWorker]
    /\ ncycles = 0
    /\ nmaint = 0
    /\ daily = {}
    /\ resp = NoResponse

\* one processor is constructed and execute_24x7_scraping runs to completion
\* (cron_simple_scrape, cron_simple, scrape_24x7); the cycle takes time
Cycle(clientOk, secResp, fbOuts, outs, m, faults) ==
    /\ ncycles < MaxCycles
    /\ \E proc \in {NewProcessor(now, clientOk)} :
       \E ex \in {Execute(companies, stock, market, proc, secResp, fbOuts, outs, m, faults)} :
          /\ ncycles' = ncycles + 1
          /\ companies' = ex.companies
          /\ stock' = ex.stock
          /\ market' = ex.market
          /\ last' = CycleRecord(proc, ex, faults)
          /\ now' = now + 1
          /\ UNCHANGED <<wk, nmaint, daily, resp>>

RunCycle ==
    /\ now < Horizon
    /\ \/ Cycle(FALSE, "raise", [k \in 1..MaxAttempts |-> "raise"],
                [k \in 1..MaxAttempts |-> "raise"],
                [s \in Symbols |-> None], NoFaults)
       \/ \E outs \in OutcomeSeqs, m \in NonEmptySnapshots :
              Cycle(TRUE, SecurityResponseOf(outs), outs, outs, m, NoFaults)

\* daily_maintenance: today is timezone.now().date(); the NameError on Sum is
\* caught by the task's handler before market_status.save()
DailyMaintenance ==
    /\ now < Horizon
    /\ nmaint < MaxMaint
    /\ nmaint' = nmaint + 1
    /\ LET today   == UtcDate(now)
           created == MarketRowsFor(market, today) = {}
           mk1     == IF created
                      THEN market (+) SetToBag({[date |-> today, is_market_open |-> FALSE,
                                                 last_scraped |-> now]})
                      ELSE market
           row     == CHOOSE r \in MarketRowsFor(mk1, today) : TRUE
           elapsed == (AbsSeconds(now) - AbsSeconds(row.last_scraped)) % SecondsPerDay
           today_records == Cardinality({ r \in BagToSet(stock) : r.scrape_date = today })
       IN  market' = IF elapsed > StaleSeconds /\ today_records = 0
                     THEN (mk1 (-) SetToBag({row}))
                          (+) SetToBag({[row EXCEPT !.last_scraped = now]})
                     ELSE mk1
    /\ UNCHANGED <<now, companies, stock, last, wk, ncycles, daily, resp>>

\* time passes between cycles (the model stops with the last cycle it follows)
Tick ==
    /\ now < Horizon
    /\ ncycles < MaxCycles
    /\ now' = now + 1
    /\ UNCHANGED <<companies, stock, market, last, wk, ncycles, nmaint, daily, resp>>

(***************************************************************************)
(* Overlapping cycles.  Each worker runs execute_24x7_scraping step by     *)
(* step: the companies update and the fetch, then for every record the     *)
(* existence check and the insert as separate database statements, then    *)
(* the market status update.  inserted, skipped, conflicts and overlapped  *)
(* are history: the companies whose row the worker inserted, the records   *)
(* it skipped as duplicates, the inserts the database refused, and whether *)
(* another cycle was running during this one.                              *)
(***************************************************************************)
Running(w) == wk[w].pc \in {"check", "insert", "status"}

BucketCompanies(st, date, time, source) ==
    { r.company : r \in BucketRows(st, date, time, source) }

StartCycle(w) ==
    /\ now < Horizon
    /\ ncycles < MaxCycles
    /\ wk[w].pc \in {"idle", "done"}
    /\ \E clientOk \in BOOLEAN, outs \in DataSeqs, m \in NonEmptySnapshots :
         \E proc \in {NewProcessor(now, clientOk)} :
         \E fetched \in {ProcessorFetch(clientOk, outs, m, 1, NoPriceData)} :
            /\ companies' = UpdateCompanies(companies, clientOk, SecurityResponseOf(outs),
                                            outs, m, FALSE)
            /\ wk' = [ v \in Workers |->
                         IF v = w
                         THEN [ pc |-> IF Falsy(fetched) THEN "done" ELSE "check",
                                proc |-> proc,
                                source |-> DataSourceFor(proc.market_session),
                                bucket_time |-> BucketTimeFor(proc),
                                items |-> fetched.data.gainers \o fetched.data.losers,
                                k |-> 1, existing |-> FALSE,
                                saved_count |-> 0, skipped |-> 0, conflicts |-> 0,
                                overlapped |-> \E u \in Workers \ {w} : Running(u),
                                inserted |-> {} ]
                         ELSE IF Running(v) THEN [wk[v] EXCEPT !.overlapped = TRUE]
                         ELSE wk[v] ]
    /\ now' = now + 1
    /\ ncycles' = ncycles + 1
    /\ UNCHANGED <<stock, market, last, nmaint, daily, resp>>

\* _save_stock_record up to the existence check (or the end of both loops)
CheckExisting(w) ==
    /\ wk[w].pc = "check"
    /\ LET me == wk[w]
       IN  IF me.k > Len(me.items)
           THEN /\ wk' = [wk EXCEPT ![w].pc = "status"]
                /\ UNCHANGED companies
           ELSE LET item   == me.items[me.k]
                    symbol == Upper(item.symbol)
                IN  IF symbol = ""
                    THEN /\ wk' = [wk EXCEPT ![w].k = @ + 1]
                         /\ UNCHANGED companies
                    ELSE /\ companies' = CompanyGetOrCreate(companies, symbol,
                                                            item.securityName)
                         /\ wk' = [wk EXCEPT ![w].pc = "insert",
                                             ![w].existing =
                                                 ExistsRecord(stock, symbol,
                                                     me.proc.scrape_date, me.bucket_time,
                                                     me.source)]
    /\ UNCHANGED <<now, stock, market, last, ncycles, nmaint, daily, resp>>

\* the rest of _save_stock_record: the duplicate skip, or stock_record.save()
InsertRecord(w) ==
    /\ wk[w].pc = "insert"
    /\ LET me   == wk[w]
           item == me.items[me.k]
       IN  IF me.existing
           THEN /\ wk' = [wk EXCEPT ![w].pc = "check", ![w].k = @ + 1,
                                    ![w].skipped = @ + 1]
                /\ UNCHANGED stock
           ELSE \E ins \in {InsertStockData(stock,
                               StockRow(me.proc, item, Upper(item.symbol), me.source,
                                        me.bucket_time))} :
                   /\ stock' = ins.stock
                   /\ wk' = [wk EXCEPT ![w].pc = "check", ![w].k = @ + 1,
                                       ![w].saved_count = @ + (IF ins.ok THEN 1 ELSE 0),
                                       ![w].conflicts = @ + (IF ins.ok THEN 0 ELSE 1),
                                       ![w].inserted =
                                           IF ins.ok THEN @ \cup {Upper(item.symbol)}
                                           ELSE @]
    /\ UNCHANGED <<now, companies, market, last, ncycles, nmaint, daily, resp>>

\* _update_market_status and the return of the result
FinishCycle(w) ==
    /\ wk[w].pc = "status"
    /\ market' = UpdateMarketStatus(market, wk[w].proc, wk[w].saved_count > 0,
                                    wk[w].proc.nepal_now, FALSE).market
    /\ wk' = [wk EXCEPT ![w].pc = "done"]
    /\ UNCHANGED <<now, companies, stock, last, ncycles, nmaint, daily, resp>>

(***************************************************************************)
(* Database failures.  A cycle in which writes fail: the company update,   *)
(* the save of the records at the positions failAt, the market status      *)
(* update.                                                                 *)
(***************************************************************************)
FaultSets ==
    { [company |-> TRUE,  failAt |-> {1},    market |-> FALSE],
      [company |-> FALSE, failAt |-> {2},    market |-> TRUE],
      [company |-> TRUE,  failAt |-> {1, 3}, market |-> TRUE] }

RunCycleFaulty ==
    /\ now < Horizon
    /\ \E faults \in FaultSets :
       \/ Cycle(FALSE, "raise", [k \in 1..MaxAttempts |-> "raise"],
                [k \in 1..MaxAttempts |-> "raise"],
                [s \in Symbols |-> None], faults)
       \/ \E outs \in OutcomeSeqs, m \in NonEmptySnapshots :
              Cycle(TRUE, SecurityResponseOf(outs), outs, outs, m, faults)

(***************************************************************************)
(* The read endpoints of the scrapers application.  A response is a record *)
(* of what the handler returned: the HTTP status, the keys of the body     *)
(* (fields), the date it echoes, the rows it carries and its message.  at  *)
(* is the instant of the request (history).                                *)
(***************************************************************************)
\* the rows the top-movers handlers slice off: [:10]
TopCount == 10

RowsOn(st, date) == { r \in BagToSet(st) : r.scrape_date = date }

\* aggregate(Max('scrape_time')) over a non-empty set of rows
MaxScrapeTime(rows) == CHOOSE t \in { r.scrape_time : r \in rows } :
                           \A r \in rows : r.scrape_time <= t

\* aggregate(Max('scrape_date')) over a non-empty set of rows
MaxScrapeDate(rows) == CHOOSE d \in { r.scrape_date : r \in rows } :
                           \A r \in rows : r.scrape_date <= d

HasChange(r) == r.percentage_change # None

ChangeOf(r) == CHOOSE v \in r.percentage_change : TRUE

\* r comes no later than q under order_by('-percentage_change') (desc) or
\* order_by('percentage_change'); SQLite sorts NULL as the smallest value
Before(r, q, desc) ==
    IF ~HasChange(q) THEN (desc \/ ~HasChange(r))
    ELSE IF ~HasChange(r) THEN ~desc
    ELSE IF desc THEN ChangeOf(r) >= ChangeOf(q) ELSE ChangeOf(r) <= ChangeOf(q)

RECURSIVE OrderBy(_, _)
OrderBy(rows, desc) ==
    IF rows = {} THEN <<>>
    ELSE LET first == CHOOSE r \in rows : \A q \in rows : Before(r, q, desc)
         IN  <<first>> \o OrderBy(rows \ {first}, desc)

Slice(seq, n) == SubSeq(seq, 1, IF Len(seq) < n THEN Len(seq) ELSE n)

\* MarketStatusView.get
MarketStatusView(mk, i) ==
    LET today == UtcDate(i)
        rows  == MarketRowsFor(mk, today)
    IN  IF rows # {}
        THEN [ view |-> "status", at |-> i, status_code |-> 200, status |-> "success",
               fields |-> {"status", "date", "is_market_open", "last_scraped",
                           "total_turnover", "total_volume", "total_transactions",
                           "current_time"},
               date |-> {today}, count |-> 1, data |-> <<>>, message |-> None,
               is_market_open |-> (CHOOSE r \in rows : TRUE).is_market_open ]
        ELSE [ view |-> "status", at |-> i, status_code |-> 200, status |-> "success",
               fields |-> {"status", "date", "is_market_open", "last_scraped",
                           "message", "current_time"},
               date |-> {today}, count |-> 0, data |-> <<>>,
               message |-> {"No market data available for today"},
               is_market_open |-> FALSE ]

LatestStocksView_TodayOnly(st, i) ==
    LET today  == DayOf(i)
        todays == RowsOn(st, today)
    IN  IF todays = {}
        THEN [ view |-> "latest", at |-> i, status_code |-> 200,
               status |-> "success",
               fields |-> {"status", "date", "count", "data", "message", "debug"},
               date |-> {today}, count |-> 0, data |-> <<>>,
               message |-> {"No stock data available"},
               reason |-> {"Database empty"} ]
        ELSE LET latest_scrape == MaxScrapeTime(todays)
                 stocks == { r \in todays : r.scrape_time = latest_scrape }
             IN  [ view |-> "latest", at |-> i, status_code |-> 200,
                   status |-> "success",
                   fields |-> {"status", "date", "scrape_time", "count", "summary",
                               "data", "debug"},
                   date |-> {today}, count |-> Cardinality(stocks),
                   data |-> OrderBy(stocks, TRUE),
                   message |-> None, reason |-> None ]

\* LatestStocksView.get: today is the date in Nepal
LatestStocksView(st, i) ==
    LET today  == DayOf(i)
        todays == RowsOn(st, today)
        all    == BagToSet(st)
    IN  IF todays = {}
        THEN IF all # {}
             THEN LET latest_scrape_date == MaxScrapeDate(all)
                      latest_scrape == MaxScrapeTime(RowsOn(st, latest_scrape_date))
                      stocks == { r \in RowsOn(st, latest_scrape_date) :
                                    r.scrape_time = latest_scrape }
                  IN  [ view |-> "latest", at |-> i, status_code |-> 200,
                        status |-> "success",
                        fields |-> {"status", "date", "scrape_time", "count", "data",
                                    "message", "debug"},
                        date |-> {latest_scrape_date}, count |-> Cardinality(stocks),
                        data |-> OrderBy(stocks, TRUE),
                        message |-> {"Showing latest available data"},
                        reason |-> {"No data for today"} ]
             ELSE [ view |-> "latest", at |-> i, status_code |-> 200,
                    status |-> "success",
                    fields |-> {"status", "date", "count", "data", "message", "debug"},
                    date |-> {today}, count |-> 0, data |-> <<>>,
                    message |-> {"No stock data available"},
                    reason |-> {"Database empty"} ]
        ELSE LET latest_scrape == MaxScrapeTime(todays)
                 stocks == { r \in todays : r.scrape_time = latest_scrape }
             IN  [ view |-> "latest", at |-> i, status_code |-> 200,
                   status |-> "success",
                   fields |-> {"status", "date", "scrape_time", "count", "summary",
                               "data", "debug"},
                   date |-> {today}, count |-> Cardinality(stocks),
                   data |-> OrderBy(stocks, TRUE),
                   message |-> None, reason |-> None ]

TopMoversView_Unfiltered(st, i, gainers) ==
    LET today  == UtcDate(i)
        todays == RowsOn(st, today)
        name   == IF gainers THEN "top_gainers" ELSE "top_losers"
    IN  IF todays = {}
        THEN [ view |-> name, at |-> i, status_code |-> 200, status |-> "success",
               fields |-> {"status", "date", "count", "data", "message"},
               date |-> {today}, count |-> 0, data |-> <<>>,
               message |-> {"No data available for today"} ]
        ELSE LET latest_scrape == MaxScrapeTime(todays)
                 movers == { r \in todays : r.scrape_time = latest_scrape }
                 top == Slice(OrderBy(movers, gainers), TopCount)
             IN  [ view |-> name, at |-> i, status_code |-> 200, status |-> "success",
                   fields |-> {"status", "date", "scrape_time", "count", "data"},
                   date |-> {today}, count |-> Len(top), data |-> top,
                   message |-> None ]

\* TopGainersView.get (gainers) and TopLosersView.get: today is
\* timezone.now().date()
TopMoversView(st, i, gainers) ==
    LET today  == UtcDate(i)
        todays == RowsOn(st, today)
        name   == IF gainers THEN "top_gainers" ELSE "top_losers"
    IN  IF todays = {}
        THEN [ view |-> name, at |-> i, status_code |-> 200, status |-> "success",
               fields |-> {"status", "date", "count", "data", "message"},
               date |-> {today}, count |-> 0, data |-> <<>>,
               message |-> {"No data available for today"} ]
        ELSE LET latest_scrape == MaxScrapeTime(todays)
                 movers == { r \in todays :
                               /\ r.scrape_time = latest_scrape
                               /\ \E v \in r.percentage_change :
                                     IF gainers THEN v > 0 ELSE v < 0 }
                 top == Slice(OrderBy(movers, gainers), TopCount)
             IN  [ view |-> name, at |-> i, status_code |-> 200, status |-> "success",
                   fields |-> {"status", "date", "scrape_time", "count", "data"},
                   date |-> {today}, count |-> Len(top), data |-> top,
                   message |-> None ]

TopGainersView(st, i) == TopMoversView(st, i, TRUE)

TopLosersView(st, i) == TopMoversView(st, i, FALSE)

ReadStatus_CreatesRow ==
    /\ now < Horizon
    /\ resp = NoResponse
    /\ resp' = MarketStatusView(market, now)
    /\ market' = IF MarketRowsFor(market, UtcDate(now)) = {}
                 THEN market (+) SetToBag({[date |-> UtcDate(now),
                                            is_market_open |-> FALSE,
                                            last_scraped |-> now]})
                 ELSE market
    /\ UNCHANGED <<now, companies, stock, last, wk, ncycles, nmaint, daily>>

\* a GET on one of the four endpoints; the model follows one request
ReadStatus ==
    /\ now < Horizon
    /\ resp = NoResponse
    /\ resp' = MarketStatusView(market, now)
    /\ UNCHANGED <<now, companies, stock, market, last, wk, ncycles, nmaint, daily>>

ReadLatest ==
    /\ now < Horizon
    /\ resp = NoResponse
    /\ resp' = LatestStocksView(stock, now)
    /\ UNCHANGED <<now, companies, stock, market, last, wk, ncycles, nmaint, daily>>

ReadTopGainers ==
    /\ now < Horizon
    /\ resp = NoResponse
    /\ resp' = TopGainersView(stock, now)
    /\ UNCHANGED <<now, companies, stock, market, last, wk, ncycles, nmaint, daily>>

ReadTopLosers ==
    /\ now < Horizon
    /\ resp = NoResponse
    /\ resp' = TopLosersView(stock, now)
    /\ UNCHANGED <<now, companies, stock, market, last, wk, ncycles, nmaint, daily>>

\* a cycle in which the library answers at once, with one unusual item
RunCycleOdd ==
    /\ now < Horizon
    /\ \E m \in OddSnapshots :
           Cycle(TRUE, "list", [k \in 1..MaxAttempts |-> "data"],
                 [k \in 1..MaxAttempts |-> "data"], m, NoFaults)

\* what happens before the request the model follows
CycleBeforeRead == resp = NoResponse /\ RunCycle

OddCycleBeforeRead == resp = NoResponse /\ RunCycleOdd

TickBeforeRead == resp = NoResponse /\ Tick

NextRead ==
    \/ CycleBeforeRead
    \/ OddCycleBeforeRead
    \/ TickBeforeRead
    \/ ReadStatus
    \/ ReadLatest
    \/ ReadTopGainers
    \/ ReadTopLosers

(***************************************************************************)
(* The nepse_data application: one DailyStockData row per (company, date), *)
(* scraped from a web page.  A page is [size, items, demo]: size is the    *)
(* number of rows of the page, items the rows of the symbols the model     *)
(* follows.  The Company table of this application is not modelled: a row  *)
(* names its company by the symbol.                                        *)
(***************************************************************************)
\* scrape_with_retry(max_retries=3, ...)
RetryDefault == 3

\* scrape_today_data: scrape_with_retry(max_retries=5)
SchedulerMaxRetries == 5

\* scrape_with_retry accepts an answer of more than 10 records
RetryMinRecords == 10

\* scrape_today_data saves an answer of more than 50 records
SchedulerMinRecords == 50

\* scrape_demo_data generates 15 records
DemoRecords == 15

SmallPageSize == RetryMinRecords + 2

FullPageSize == SchedulerMinRecords + 10

DailyItem(s) == [symbol |-> s, ltp |-> LtpOf(s), percent_change |-> QuoteOf(s)]

EmptyPage == [size |-> 0, items |-> <<>>, demo |-> FALSE]

\* scrape_today_prices: the table of the page, or [] from scrape_alternative
ScrapeTodayPrices(out) ==
    CASE out = "full"  -> [ size |-> FullPageSize,
                            items |-> <<DailyItem("AAA"), DailyItem("BBB")>>,
                            demo |-> FALSE ]
      [] out = "small" -> [ size |-> SmallPageSize, items |-> <<DailyItem("AAA")>>,
                            demo |-> FALSE ]
      [] OTHER         -> EmptyPage

\* scrape_demo_data: random values; rnd is the change drawn for the symbol
ScrapeDemoData(rnd) ==
    [ size |-> DemoRecords,
      items |-> <<[symbol |-> "NLIC", ltp |-> 500, percent_change |-> rnd]>>,
      demo |-> TRUE ]

DemoChanges == {-5, 5}

\* scrape_with_retry.  pages[k] is what the site does on attempt k; trace is
\* the sequence of requests ("try") and waits ("sleep") made (history).
RECURSIVE RetryFrom(_, _, _, _, _, _)
RetryFrom(max_retries, use_demo_on_fail, pages, rnd, attempt, trace) ==
    IF attempt >= max_retries
    THEN [ data |-> IF use_demo_on_fail THEN ScrapeDemoData(rnd) ELSE EmptyPage,
           trace |-> trace, attempts |-> attempt ]
    ELSE LET trace2 == trace \o (IF attempt > 0 THEN <<"sleep">> ELSE <<>>) \o <<"try">>
             data   == ScrapeTodayPrices(pages[attempt + 1])
         IN  IF data.size > RetryMinRecords
             THEN [data |-> data, trace |-> trace2, attempts |-> attempt + 1]
             ELSE RetryFrom(max_retries, use_demo_on_fail, pages, rnd, attempt + 1, trace2)

ScrapeWithRetry(max_retries, use_demo_on_fail, pages, rnd) ==
    RetryFrom(max_retries, use_demo_on_fail, pages, rnd, 0, <<>>)

DailyRowsOn(dl, date) == { r \in dl : r.date = date }

\* save_to_database: update_or_create by (company, date) for every record
RECURSIVE SaveToDatabase(_, _, _)
SaveToDatabase(dl, items, today) ==
    IF items = <<>> THEN dl
    ELSE LET data == Head(items)
             row  == [ company |-> data.symbol, date |-> today,
                       close_price |-> {data.ltp},
                       change_percent |-> {data.percent_change} ]
             kept == { r \in dl : ~(r.company = data.symbol /\ r.date = today) }
         IN  SaveToDatabase(kept \cup {row}, Tail(items), today)

\* what the site does over the attempts of one call
PageSeqs ==
    { [k \in 1..SchedulerMaxRetries |-> "full"],
      [k \in 1..SchedulerMaxRetries |-> "none"],
      [k \in 1..SchedulerMaxRetries |->
           IF k = 1 THEN "none" ELSE IF k <= RetryDefault THEN "small" ELSE "full"] }

\* nepse_data.tasks.scrape_daily_data: the day's rows are deleted, then the
\* answer (the demo data when every attempt fails) is saved;
\* update_top_performers does not exist and its AttributeError is caught
ScrapeDailyData ==
    /\ now < Horizon
    /\ ncycles < MaxCycles
    /\ \E pages \in PageSeqs, rnd \in DemoChanges :
          LET today  == UtcDate(now)
              kept   == daily \ DailyRowsOn(daily, today)
              got    == ScrapeWithRetry(RetryDefault, TRUE, pages, rnd)
          IN  daily' = IF got.data.size > 0
                       THEN SaveToDatabase(kept, got.data.items, today)
                       ELSE kept
    /\ ncycles' = ncycles + 1
    /\ now' = now + 1
    /\ UNCHANGED <<companies, stock, market, last, wk, nmaint, resp>>

\* is_market_day_and_hours: Monday to Friday, 11:00 to 15:00
IsMarketDayAndHours(i) ==
    /\ Weekday(DayOf(i)) < 5
    /\ HourOf(TodOf(i)) >= MarketOpenHour
    /\ HourOf(TodOf(i)) < MarketCloseHour

\* scrape_today_data: the rows of the date in Nepal are deleted; an answer of
\* more than 50 records is saved, by save_to_database under timezone.now().date()
ScrapeTodayData(dl, i, pages, rnd) ==
    LET today == DayOf(i)
        kept  == dl \ DailyRowsOn(dl, today)
        got   == ScrapeWithRetry(SchedulerMaxRetries, TRUE, pages, rnd)
    IN  IF got.data.size > SchedulerMinRecords
        THEN SaveToDatabase(kept, got.data.items, UtcDate(i))
        ELSE kept

\* scheduler.check_and_scrape_if_needed, every 30 minutes
CheckAndScrapeIfNeeded ==
    /\ now < Horizon
    /\ ncycles < MaxCycles
    /\ \E pages \in PageSeqs, rnd \in DemoChanges :
          LET today == DayOf(now)
          IN  daily' = IF DailyRowsOn(daily, today) # {}
                       THEN daily
                       ELSE IF ~IsMarketDayAndHours(now)
                               /\ HourOf(TodOf(now)) < MarketCloseHour
                            THEN daily
                            ELSE ScrapeTodayData(daily, now, pages, rnd)
    /\ ncycles' = ncycles + 1
    /\ now' = now + 1
    /\ UNCHANGED <<companies, stock, market, last, wk, nmaint, resp>>

(***************************************************************************)
(* The read endpoints over DailyStockData.  limit is the query parameter:  *)
(* missing, a text that is no integer, or an integer.                      *)
(***************************************************************************)
\* request.GET.get('limit', 10)
DefaultLimit == 10

\* min(int(...), 20)
LimitCap == 20

Limits ==
    { [kind |-> "missing", n |-> 0], [kind |-> "text", n |-> 0] }
        \cup { [kind |-> "int", n |-> v] : v \in {-1, 0, 1, LimitCap, LimitCap + 1} }

\* limit = min(int(request.GET.get('limit', 10)), 20), 10 on ValueError
ParseLimit(param) ==
    CASE param.kind = "missing" -> IF DefaultLimit < LimitCap THEN DefaultLimit ELSE LimitCap
      [] param.kind = "text"    -> DefaultLimit
      [] OTHER                  -> IF param.n < LimitCap THEN param.n ELSE LimitCap

MaxDate(dl) == CHOOSE d \in { r.date : r \in dl } : \A r \in dl : r.date <= d

DailyChange(r) == CHOOSE v \in r.change_percent : TRUE

RECURSIVE OrderDaily(_, _)
OrderDaily(rows, desc) ==
    IF rows = {} THEN <<>>
    ELSE LET first == CHOOSE r \in rows : \A q \in rows :
                          IF desc THEN DailyChange(r) >= DailyChange(q)
                          ELSE DailyChange(r) <= DailyChange(q)
         IN  <<first>> \o OrderDaily(rows \ {first}, desc)

DailyMovers(dl, date, gainers) ==
    { r \in DailyRowsOn(dl, date) :
        \E v \in r.change_percent : IF gainers THEN v > 0 ELSE v < 0 }

\* top_views.TopGainersView.get / TopLosersView.get; a negative slice bound
\* raises in the queryset and nothing catches it
TopView(dl, i, param, gainers) ==
    LET name == IF gainers THEN "top_view_gainers" ELSE "top_view_losers"
    IN  IF dl = {}
        THEN [ view |-> name, at |-> i, limit |-> param, status_code |-> 404,
               fields |-> {"error"}, date |-> None, count |-> 0, data |-> <<>>,
               message |-> {"No stock data available"} ]
        ELSE LET target_date == MaxDate(dl)
                 limit == ParseLimit(param)
                 daily_data == { r \in DailyRowsOn(dl, target_date) :
                                   r.change_percent # None }
             IN  IF daily_data = {}
                 THEN [ view |-> name, at |-> i, limit |-> param, status_code |-> 404,
                        fields |-> {"error"}, date |-> None, count |-> 0,
                        data |-> <<>>, message |-> {"No data available"} ]
                 ELSE IF limit < 0
                 THEN [ view |-> name, at |-> i, limit |-> param, status_code |-> 500,
                        fields |-> {}, date |-> None, count |-> 0, data |-> <<>>,
                        message |-> None ]
                 ELSE LET top == Slice(OrderDaily(DailyMovers(dl, target_date, gainers),
                                                  gainers), limit)
                      IN  [ view |-> name, at |-> i, limit |-> param,
                            status_code |-> 200,
                            fields |-> {"date", "count",
                                        IF gainers THEN "top_gainers" ELSE "top_losers"},
                            date |-> {target_date}, count |-> Len(top), data |-> top,
                            message |-> None ]

\* views.LatestStocksAPI.get: today is timezone.now().date()
LatestStocksAPI(dl, i) ==
    LET today == UtcDate(i)
        today_exists == DailyRowsOn(dl, today) # {}
    IN  IF ~today_exists /\ dl = {}
        THEN [ view |-> "latest_api", at |-> i, status_code |-> 200,
               status |-> "success",
               fields |-> {"status", "message", "data_date", "total_stocks", "data",
                           "market_summary", "is_today_data"},
               date |-> None, count |-> 0, rows |-> {},
               message |-> {"No stock data available"}, is_today_data |-> FALSE ]
        ELSE LET latest_date == IF today_exists THEN today ELSE MaxDate(dl)
                 stocks == DailyRowsOn(dl, latest_date)
             IN  [ view |-> "latest_api", at |-> i, status_code |-> 200,
                   status |-> "success",
                   fields |-> {"status", "message", "data_date", "total_stocks", "data",
                               "market_summary", "is_today_data",
                               "next_scrape_scheduled"},
                   date |-> {latest_date}, count |-> Cardinality(stocks),
                   rows |-> stocks, message |-> {"Found stocks"},
                   is_today_data |-> today_exists ]

\* views.TopGainersAPI.get / TopLosersAPI.get; nothing fills the TopGainers
\* and TopLosers tables, so the ranking is computed from DailyStockData
TopMoversAPI(dl, i, gainers) ==
    LET name == IF gainers THEN "top_gainers_api" ELSE "top_losers_api"
    IN  IF dl = {}
        THEN [ view |-> name, at |-> i, status_code |-> 200, status |-> "success",
               fields |-> {"status", "message", "data_date",
                           IF gainers THEN "gainers" ELSE "losers"},
               date |-> None, count |-> 0, data |-> <<>>,
               message |-> {"No data available"}, is_today_data |-> None ]
        ELSE LET latest_date == MaxDate(dl)
                 top == Slice(OrderDaily(DailyMovers(dl, latest_date, gainers), gainers),
                              TopCount)
             IN  [ view |-> name, at |-> i, status_code |-> 200, status |-> "success",
                   fields |-> {"status", "data_date", "is_today_data", "count",
                               IF gainers THEN "gainers" ELSE "losers"},
                   date |-> {latest_date}, count |-> Len(top), data |-> top,
                   message |-> None, is_today_data |-> {latest_date = UtcDate(i)} ]

\* api_views.LatestStockDataView.get
LatestStockDataView(dl, i) ==
    IF dl = {}
    THEN [ view |-> "latest_stock_data", at |-> i, status_code |-> 404,
           fields |-> {"date", "count", "results"}, date |-> None, count |-> 0,
           rows |-> {}, message |-> None ]
    ELSE LET latest_date == MaxDate(dl)
         IN  [ view |-> "latest_stock_data", at |-> i, status_code |-> 200,
               fields |-> {"date", "count", "results"}, date |-> {latest_date},
               count |-> Cardinality(DailyRowsOn(dl, latest_date)),
               rows |-> DailyRowsOn(dl, latest_date), message |-> None ]

Answer(r) ==
    /\ now < Horizon
    /\ resp = NoResponse
    /\ resp' = r
    /\ UNCHANGED <<now, companies, stock, market, last, wk, ncycles, nmaint, daily>>

ReadTopView == \E param \in Limits, gainers \in BOOLEAN :
                   Answer(TopView(daily, now, param, gainers))

ReadLatestAPI == Answer(LatestStocksAPI(daily, now))

ReadTopMoversAPI == \E gainers \in BOOLEAN : Answer(TopMoversAPI(daily, now, gainers))

ReadLatestStockData == Answer(LatestStockDataView(daily, now))

ScrapeDailyBeforeRead == resp = NoResponse /\ ScrapeDailyData

CheckAndScrapeBeforeRead == resp = NoResponse /\ CheckAndScrapeIfNeeded

NextDaily ==
    \/ ScrapeDailyBeforeRead
    \/ CheckAndScrapeBeforeRead
    \/ TickBeforeRead
    \/ ReadTopView
    \/ ReadLatestAPI
    \/ ReadTopMoversAPI
    \/ ReadLatestStockData

(***************************************************************************)
(* The retry loops, with the requests ("try") and waits ("sleep") they     *)
(* make, in order.                                                         *)
(***************************************************************************)
\* the library's answer on an attempt fills result['gainers'] or ['losers']
ClientUsable(out, m) ==
    /\ out = "data"
    /\ FormatAll(GetTopGainers(m), TRUE) \o FormatAll(GetTopLosers(m), FALSE) # <<>>

RECURSIVE ClientTrace_SleepAfterLast(_, _, _, _)
ClientTrace_SleepAfterLast(outs, m, attempt, trace) ==
    IF attempt >= MaxAttempts
    THEN [trace |-> trace, result |-> "fallback"]
    ELSE IF ClientUsable(outs[attempt + 1], m)
         THEN [trace |-> Append(trace, "try"), result |-> "data"]
         ELSE ClientTrace_SleepAfterLast(outs, m, attempt + 1,
                                         trace \o <<"try", "sleep">>)

\* the loop of get_todays_price_data: for attempt in range(max_attempts)
RECURSIVE ClientTrace(_, _, _, _)
ClientTrace(outs, m, attempt, trace) ==
    IF attempt >= MaxAttempts
    THEN [trace |-> trace, result |-> "fallback"]
    ELSE IF ClientUsable(outs[attempt + 1], m)
         THEN [trace |-> Append(trace, "try"), result |-> "data"]
         ELSE ClientTrace(outs, m, attempt + 1,
                          IF attempt < MaxAttempts - 1
                          THEN trace \o <<"try", "sleep">>
                          ELSE Append(trace, "try"))

\* the loop of execute_24x7_scraping: one call of the client per attempt; the
\* client catches the library's exceptions and answers every call alike
RECURSIVE ProcessorTrace(_, _, _, _, _)
ProcessorTrace(clientOk, outs, m, attempt, trace) ==
    IF attempt >= ProcessorMaxAttempts
    THEN [trace |-> trace, result |-> "empty"]
    ELSE LET pd == GetTodaysPriceData(clientOk, outs, m)
         IN  IF pd.gainers # <<>> \/ pd.losers # <<>>
             THEN [ trace |-> Append(trace, "try"),
                    result |-> IF pd.emergency THEN "fallback" ELSE "data" ]
             ELSE ProcessorTrace(clientOk, outs, m, attempt + 1,
                                 IF attempt < ProcessorMaxAttempts - 1
                                 THEN trace \o <<"try", "sleep">>
                                 ELSE Append(trace, "try"))

AllOutcomeSeqs == [1..MaxAttempts -> AttemptOutcomes]

AllPageSeqs == [1..SchedulerMaxRetries -> {"full", "small", "none"}]

\* one price fetch by the client; source is what the library does on each
\* attempt and usable[k] tells whether attempt k can succeed
FetchClient ==
    /\ resp = NoResponse
    /\ \E outs \in AllOutcomeSeqs, m \in Snapshots :
          LET got == ClientTrace(outs, m, 0, <<>>)
          IN  resp' = [ view |-> "fetch", loop |-> "client", max |-> MaxAttempts,
                        source |-> outs,
                        usable |-> [k \in 1..MaxAttempts |-> ClientUsable(outs[k], m)],
                        trace |-> got.trace, result |-> got.result,
                        attempts |-> GetTodaysPriceData(TRUE, outs, m).attempts ]
    /\ UNCHANGED <<now, companies, stock, market, last, wk, ncycles, nmaint, daily>>

FetchProcessor ==
    /\ resp = NoResponse
    /\ \E clientOk \in BOOLEAN, outs \in AllOutcomeSeqs, m \in Snapshots :
          LET got == ProcessorTrace(clientOk, outs, m, 0, <<>>)
          IN  resp' = [ view |-> "fetch", loop |-> "processor",
                        max |-> ProcessorMaxAttempts, source |-> outs,
                        usable |-> [k \in 1..ProcessorMaxAttempts |-> clientOk],
                        trace |-> got.trace, result |-> got.result,
                        attempts |-> ProcessorFetch(clientOk, outs, m, 1, NoPriceData).calls ]
    /\ UNCHANGED <<now, companies, stock, market, last, wk, ncycles, nmaint, daily>>

FetchScraper ==
    /\ resp = NoResponse
    /\ \E max_retries \in {RetryDefault, SchedulerMaxRetries}, use_demo_on_fail \in BOOLEAN,
          pages \in AllPageSeqs, rnd \in DemoChanges :
          LET got == ScrapeWithRetry(max_retries, use_demo_on_fail, pages, rnd)
          IN  resp' = [ view |-> "fetch", loop |-> "scraper", max |-> max_retries,
                        source |-> pages,
                        usable |-> [k \in 1..max_retries |->
                                       ScrapeTodayPrices(pages[k]).size > RetryMinRecords],
                        trace |-> got.trace,
                        result |-> IF got.data.demo THEN "fallback"
                                   ELSE IF got.data.size > 0 THEN "data" ELSE "empty",
                        attempts |-> got.attempts ]
    /\ UNCHANGED <<now, companies, stock, market, last, wk, ncycles, nmaint, daily>>

NextRetry == FetchClient \/ FetchProcessor \/ FetchScraper

(***************************************************************************)
(* The normalisers of raw records.  A raw value is absent, the sentinel    *)
(* '-', a text that is no number ('N/A'), or a number.  A raw record gives *)
(* the symbol and the values found under the field names a normaliser      *)
(* reads for the last price, the percentage change and the previous close; *)
(* it has no point-change field.  A normaliser returns <<>> (the record is *)
(* dropped, also when an exception is caught) or one record.               *)
(***************************************************************************)
RawAbsent == [k |-> "absent", n |-> 0]

RawDash == [k |-> "dash", n |-> 0]

RawText == [k |-> "text", n |-> 0]

RawNum(n) == [k |-> "num", n |-> n]

\* prices of which the derived change is a whole percentage
RawPrices == {0, 90, 100, 110}

RawValues == {RawAbsent, RawDash, RawText} \cup { RawNum(n) : n \in RawPrices }

RawChanges == {RawAbsent, RawDash, RawText} \cup { RawNum(n) : n \in {-10, 0, 10} }

RawRecords ==
    [ symbol : {"", "AAA"}, ltp : RawValues, pct : RawChanges, prev : RawValues ]

\* ((ltp - prev) / prev) * 100
DerivedChange(ltp, prev) == ((ltp - prev) * 100) \div prev

\* DirectNepseScraper: field in item and item[field] not in [None, '', '-']
DirectFound(v) == v.k \in {"text", "num"}

\* DirectNepseScraper._parse_number
DirectParse(v) == IF v.k = "num" THEN {v.n} ELSE None

\* DirectNepseScraper._format_stock_data; the TypeError of an arithmetic
\* operation or a comparison on None is caught and the record is dropped
DirectFormatStockData(item) ==
    LET symbol  == Upper(item.symbol)
        ltp     == DirectParse(item.ltp)
        prev    == DirectParse(item.prev)
        derive  == /\ ~DirectFound(item.pct)
                   /\ DirectFound(item.prev)
                   /\ \E v \in prev : v # 0 /\ v > 0
        point   == DirectFound(item.prev) /\ \E v \in prev : v # 0
        inData  == DirectFound(item.pct) \/ derive
        pct     == IF DirectFound(item.pct) THEN DirectParse(item.pct)
                   ELSE IF derive
                        THEN { DerivedChange(l, v) : l \in ltp, v \in prev }
                        ELSE None
    IN  IF symbol = "" THEN <<>>
        ELSE IF ~DirectFound(item.ltp) THEN <<>>
        ELSE IF (derive \/ point) /\ ltp = None THEN <<>>
        ELSE IF inData /\ pct = None THEN <<>>
        ELSE << [ symbol           |-> symbol,
                  securityName     |-> symbol,
                  ltp              |-> ltp,
                  percentageChange |-> pct,
                  previousClose    |-> IF DirectFound(item.prev) THEN prev ELSE None,
                  is_gainer        |-> \E v \in pct : v > 0 ] >>

\* FinalNepseClient._safe_float
SafeFloat(v) == IF v.k = "num" THEN v.n ELSE 0

\* item_dict.get(...) or other: absent and 0 are falsy
RawFalsy(v) == v.k = "absent" \/ (v.k = "num" /\ v.n = 0)

\* FinalNepseClient._format_item
FormatItem(item, is_gainer) ==
    LET ltp        == IF RawFalsy(item.ltp) THEN 0 ELSE SafeFloat(item.ltp)
        prev_close == IF RawFalsy(item.prev) THEN ltp ELSE SafeFloat(item.prev)
        pct_change == IF prev_close = 0 THEN 0 ELSE DerivedChange(ltp, prev_close)
    IN  IF item.symbol = "" THEN <<>>
        ELSE << [ symbol           |-> Upper(item.symbol),
                  securityName     |-> item.symbol,
                  ltp              |-> {ltp},
                  percentageChange |-> {pct_change},
                  previousClose    |-> {prev_close},
                  is_gainer        |-> is_gainer ] >>

\* the body of the loop of FinalNepseClient._process_today_data
ProcessTodayItem(item) ==
    LET ltp        == IF RawFalsy(item.ltp) THEN 0 ELSE SafeFloat(item.ltp)
        prev_close == IF RawFalsy(item.prev) THEN ltp ELSE SafeFloat(item.prev)
    IN  IF item.symbol = "" THEN <<>>
        ELSE IF prev_close = 0 THEN <<>>
        ELSE << [ symbol           |-> Upper(item.symbol),
                  securityName     |-> item.symbol,
                  ltp              |-> {ltp},
                  percentageChange |-> {DerivedChange(ltp, prev_close)},
                  previousClose    |-> {prev_close},
                  is_gainer        |-> DerivedChange(ltp, prev_close) > 0 ] >>

\* what item.get(field) gives UnofficialNepseClientFinal._parse_number: a text
\* that float() rejects is parsed to None
UnofficialValue(v) == IF v.k = "num" THEN {v.n} ELSE None

\* UnofficialNepseClientFinal._format_stock_data on a raw record
UnofficialFormat(item, is_gainer) ==
    FormatStockData([ symbol |-> item.symbol, name |-> None,
                      percentageChange |-> UnofficialValue(item.pct),
                      ltp |-> UnofficialValue(item.ltp) ], is_gainer)

Normalisers == {"direct", "format_item", "process_today", "unofficial"}

Normalise(fn, item) ==
    CASE fn = "direct"        -> DirectFormatStockData(item)
      [] fn = "format_item"   -> FormatItem(item, TRUE)
      [] fn = "process_today" -> ProcessTodayItem(item)
      [] OTHER                -> UnofficialFormat(item, TRUE)

\* one raw record is normalised
NormaliseRecord ==
    /\ resp = NoResponse
    /\ \E fn \in Normalisers, item \in RawRecords :
          resp' = [view |-> "normalise", fn |-> fn, raw |-> item, out |-> Normalise(fn, item)]
    /\ UNCHANGED <<now, companies, stock, market, last, wk, ncycles, nmaint, daily>>

(***************************************************************************)
(* DirectNepseScraper.get_today_price_data over the list of the            *)
(* today-price endpoint.                                                   *)
(***************************************************************************)
\* result['gainers'][:10]
DirectTopLimit == 10

\* _process_stock_list: the records _format_stock_data returns
RECURSIVE ProcessStockList(_)
ProcessStockList(raw_list) ==
    IF raw_list = <<>> THEN <<>>
    ELSE DirectFormatStockData(Head(raw_list)) \o ProcessStockList(Tail(raw_list))

\* list.sort(key=percentageChange, reverse=desc): stable
RECURSIVE InsertByChange(_, _, _)
InsertByChange(sorted, rec, desc) ==
    IF sorted = <<>> THEN <<rec>>
    ELSE LET h == CHOOSE v \in Head(sorted).percentageChange : TRUE
             c == CHOOSE v \in rec.percentageChange : TRUE
         IN  IF (IF desc THEN c > h ELSE c < h)
             THEN <<rec>> \o sorted
             ELSE <<Head(sorted)>> \o InsertByChange(Tail(sorted), rec, desc)

RECURSIVE SortByChange(_, _)
SortByChange(seq, desc) ==
    IF seq = <<>> THEN <<>>
    ELSE InsertByChange(SortByChange(SubSeq(seq, 1, Len(seq) - 1), desc),
                        seq[Len(seq)], desc)

\* the loop that separates gainers and losers; pct_change > 0 on a record
\* whose percentageChange is None raises TypeError, which the except of
\* get_today_price_data answers by returning the result as it stands
RECURSIVE SeparateFrom(_, _)
SeparateFrom(stocks, result) ==
    IF stocks = <<>> THEN result
    ELSE LET entry == Head(stocks)
         IN  IF entry.percentageChange = None
             THEN [result EXCEPT !.raised = TRUE]
             ELSE LET pct_change == CHOOSE v \in entry.percentageChange : TRUE
                  IN  SeparateFrom(Tail(stocks),
                          IF pct_change > 0
                          THEN [result EXCEPT !.gainers = Append(@, entry)]
                          ELSE IF pct_change < 0
                          THEN [result EXCEPT !.losers = Append(@, entry)]
                          ELSE result)

\* get_today_price_data; the direct gainers and losers endpoints of method 2
\* give nothing
DirectGetTodayPriceData(raw_list) ==
    LET all_stocks == ProcessStockList(raw_list)
        empty      == [gainers |-> <<>>, losers |-> <<>>, raised |-> FALSE]
    IN  IF all_stocks = <<>> THEN empty
        ELSE LET separated == SeparateFrom(all_stocks, empty)
             IN  IF separated.raised THEN separated
                 ELSE [ gainers |-> Slice(SortByChange(separated.gainers, TRUE),
                                          DirectTopLimit),
                        losers  |-> Slice(SortByChange(separated.losers, FALSE),
                                          DirectTopLimit),
                        raised  |-> FALSE ]

\* the records a list may hold for a symbol: a gainer, a loser, a record whose
\* change is derived, one with neither change nor previous close, one whose
\* change is no number, one without a price
BatchShapes(sym) ==
    { [symbol |-> sym, ltp |-> RawNum(110), pct |-> RawNum(10), prev |-> RawAbsent],
      [symbol |-> sym, ltp |-> RawNum(90), pct |-> RawNum(-10), prev |-> RawAbsent],
      [symbol |-> sym, ltp |-> RawNum(110), pct |-> RawDash, prev |-> RawNum(100)],
      [symbol |-> sym, ltp |-> RawNum(100), pct |-> RawAbsent, prev |-> RawAbsent],
      [symbol |-> sym, ltp |-> RawNum(110), pct |-> RawText, prev |-> RawNum(100)],
      [symbol |-> sym, ltp |-> RawAbsent, pct |-> RawNum(10), prev |-> RawNum(100)] }

ListSymbols == <<"AAA", "BBB", "CCC">>

RawBatches ==
    { b \in [1..Len(ListSymbols) -> UNION { BatchShapes(ListSymbols[k]) :
                                            k \in 1..Len(ListSymbols) }] :
        \A k \in 1..Len(ListSymbols) : b[k].symbol = ListSymbols[k] }

\* one list of the today-price endpoint is fetched and processed
NormaliseBatch ==
    /\ resp = NoResponse
    /\ \E raw_list \in RawBatches :
          resp' = [view |-> "batch", raw |-> raw_list,
                   out |-> DirectGetTodayPriceData(raw_list)]
    /\ UNCHANGED <<now, companies, stock, market, last, wk, ncycles, nmaint, daily>>

(***************************************************************************)
(* scheduler.start: the thread of the immediate check and the thread of    *)
(* the periodic loop both run check_and_scrape_if_needed.  The two threads *)
(* are the workers: pc is the thread's position, items the answer it       *)
(* saves, k the next record of save_to_database, saved_count the records   *)
(* it saved.  Each step is one query.                                      *)
(***************************************************************************)
\* time passes before start() is called
TickBeforeStart ==
    /\ \A w \in Workers : wk[w].pc = "idle"
    /\ Tick

\* DailyStockData.objects.filter(date=today).count() and the market check
ThreadCheck(w) ==
    /\ now < Horizon
    /\ wk[w].pc = "idle"
    /\ LET today_count == Cardinality(DailyRowsOn(daily, DayOf(now)))
           goes == /\ today_count = 0
                   /\ \/ IsMarketDayAndHours(now)
                      \/ HourOf(TodOf(now)) >= MarketCloseHour
       IN  wk' = [wk EXCEPT ![w].pc = IF goes THEN "delete" ELSE "done",
                            ![w].proc.nepal_now = now]
    /\ UNCHANGED <<now, companies, stock, market, last, ncycles, nmaint, daily, resp>>

\* scrape_today_data: the rows of today are counted and deleted
ThreadDelete(w) ==
    /\ wk[w].pc = "delete"
    /\ daily' = daily \ DailyRowsOn(daily, DayOf(now))
    /\ wk' = [wk EXCEPT ![w].pc = "fetch"]
    /\ UNCHANGED <<now, companies, stock, market, last, ncycles, nmaint, resp>>

\* scrape_with_retry(max_retries=5) and the test len(data) > 50
ThreadFetch(w) ==
    /\ wk[w].pc = "fetch"
    /\ \E pages \in PageSeqs, rnd \in DemoChanges :
          LET got == ScrapeWithRetry(SchedulerMaxRetries, TRUE, pages, rnd)
          IN  wk' = IF got.data.size > SchedulerMinRecords
                    THEN [wk EXCEPT ![w].pc = "save", ![w].items = got.data.items,
                                    ![w].k = 1]
                    ELSE [wk EXCEPT ![w].pc = "done"]
    /\ UNCHANGED <<now, companies, stock, market, last, ncycles, nmaint, daily, resp>>

\* one update_or_create of save_to_database; the database serialises the
\* statements of the two threads
ThreadSave(w) ==
    /\ wk[w].pc = "save"
    /\ IF wk[w].k > Len(wk[w].items)
       THEN /\ wk' = [wk EXCEPT ![w].pc = "done"]
            /\ UNCHANGED daily
       ELSE /\ daily' = SaveToDatabase(daily, <<wk[w].items[wk[w].k]>>, UtcDate(now))
            /\ wk' = [wk EXCEPT ![w].k = @ + 1, ![w].saved_count = @ + 1]
    /\ UNCHANGED <<now, companies, stock, market, last, ncycles, nmaint, resp>>

NextRace ==
    \/ TickBeforeStart
    \/ \E w \in Workers : ThreadCheck(w)
    \/ \E w \in Workers : ThreadDelete(w)
    \/ \E w \in Workers : ThreadFetch(w)
    \/ \E w \in Workers : ThreadSave(w)

\* the two latest-stocks endpoints, each over the table its application fills
NextLatest ==
    \/ CycleBeforeRead
    \/ ScrapeDailyBeforeRead
    \/ CheckAndScrapeBeforeRead
    \/ TickBeforeRead
    \/ ReadLatest
    \/ ReadLatestAPI

Next == RunCycle \/ Tick

NextMaint == RunCycle \/ DailyMaintenance \/ Tick

\* time passes while no cycle is running (a cycle lasts seconds; a cycle that
\* starts during another one starts at the next instant)
TickIdle ==
    /\ \A w \in Workers : ~Running(w)
    /\ Tick

NextConc ==
    \/ \E w \in Workers : StartCycle(w)
    \/ \E w \in Workers : CheckExisting(w)
    \/ \E w \in Workers : InsertRecord(w)
    \/ \E w \in Workers : FinishCycle(w)
    \/ TickIdle

NextFault == RunCycle \/ RunCycleFaulty \/ Tick

Spec == Init /\ [][Next]_vars

SpecMaint == Init /\ [][NextMaint]_vars

SpecConc == Init /\ [][NextConc]_vars

SpecFault == Init /\ [][NextFault]_vars

SpecRead == Init /\ [][NextRead]_vars

SpecDaily == Init /\ [][NextDaily]_vars

SpecLatest == Init /\ [][NextLatest]_vars

SpecRetry == Init /\ [][NextRetry]_vars

NextNormalise == NormaliseRecord \/ NormaliseBatch

SpecRace == Init /\ [][NextRace]_vars

SpecNormalise == Init /\ [][NextNormalise]_vars

(***************************************************************************)
(* What the triggers return for a cycle c (a cycle record).                *)
(***************************************************************************)
\* scrape_24x7: the result of execute_24x7_scraping, or the handler's dict
Scrape24x7(c) ==
    IF c.raised
    THEN [propagated |-> FALSE, fields |-> {"status", "error", "timestamp"}]
    ELSE [propagated |-> FALSE, fields |-> c.fields]

\* cron_simple_scrape: the JsonResponse
CronSimpleScrape(c) ==
    IF c.raised
    THEN [status_code |-> 500, fields |-> {"error"}, data |-> {}]
    ELSE [ status_code |-> 200,
           fields |-> {"status", "records_saved", "message", "timestamp", "data"},
           data |-> c.fields ]

(***************************************************************************)
(* Properties.                                                             *)
(***************************************************************************)
RowCount == BagCardinality(stock)

OpenSecond == MarketOpenHour * 3600

CloseSecond == MarketCloseHour * 3600

ClosingWindow == 2 * 3600

\* C1: reconciling the same batch twice for the same (scrape_date, bucket time,
\* data_source): the second pass saves nothing and leaves the number of
\* StockData rows as the first pass left it, and the first pass, run on a bucket
\* without rows, saved every one of the N records.
C1_Idempotence ==
    last.repeat =>
        /\ last.records_saved = 0
        /\ RowCount = last.rows_before
        /\ (last.prev_fresh /\ DistinctSymbols(last.batch)
               => last.prev_saved = Len(last.batch))

C1_Witness ==
    /\ last.repeat
    /\ last.prev_fresh
    /\ Len(last.batch) >= 2
    /\ last.prev_saved = Len(last.batch)
    /\ last.records_saved = 0

\* C2: there are never two StockData rows with the same (company, scrape_date,
\* scrape_time, data_source), whatever cycles ran, in sequence or overlapping,
\* in any session and on any date.
C2_UniqueIdentity ==
    \A r \in BagToSet(stock) :
        /\ CopiesIn(r, stock) = 1
        /\ \A q \in BagToSet(stock) :
              SameIdentity(q, r.company, r.scrape_date, r.scrape_time, r.data_source)
                  => q = r

C2_Witness ==
    /\ RowCount >= 2
    /\ \E w \in Workers : wk[w].pc = "done" /\ wk[w].skipped + wk[w].conflicts > 0

BothDoneSameBucket ==
    /\ wk[1].pc = "done" /\ wk[2].pc = "done"
    /\ wk[1].overlapped /\ wk[2].overlapped
    /\ wk[1].proc.scrape_date = wk[2].proc.scrape_date
    /\ wk[1].bucket_time = wk[2].bucket_time
    /\ wk[1].source = wk[2].source

\* C3: when two cycles that overlapped in time and reconciled the same bucket
\* have both finished, the bucket holds exactly one row for every company either
\* of them fetched, and their saved counts add up to the number of distinct
\* companies they inserted.
C3_OverlapSafe ==
    BothDoneSameBucket =>
        /\ \A s \in BatchSymbols(wk[1].items) \cup BatchSymbols(wk[2].items) :
              BagCardinality(
                  [ r \in { q \in BagToSet(stock) :
                              SameIdentity(q, s, wk[1].proc.scrape_date,
                                           wk[1].bucket_time, wk[1].source) }
                    |-> CopiesIn(r, stock) ]) = 1
        /\ wk[1].saved_count + wk[2].saved_count
              = Cardinality(wk[1].inserted \cup wk[2].inserted)

C3_Witness ==
    /\ BothDoneSameBucket
    /\ wk[1].conflicts + wk[2].conflicts > 0
    /\ wk[1].saved_count + wk[2].saved_count >= 2

\* C4 as claimed: a second trigger on the same date in the same session saves
\* nothing and leaves the StockData rows as they were.
C4_SecondTriggerSavesNothing ==
    last.same_session => (last.records_saved = 0 /\ last.unchanged)

\* C4 as amended: a second trigger on the same date in the same session saves
\* nothing and leaves the rows as they were when the session is not 'regular'
\* and it fetches no symbol the first did not fetch; in the 'regular' session it
\* saves every fetched record again, under its own scrape_time.
C4_SecondTriggerPerBucket ==
    last.same_session =>
        /\ (last.session # "regular" /\ last.covered
               => last.records_saved = 0 /\ last.unchanged)
        /\ (last.session = "regular" => last.records_saved = Len(last.batch))

C4_Witness ==
    /\ last.same_session
    /\ last.session = "regular"
    /\ last.records_saved >= 2
    /\ ~last.unchanged

\* C5 as claimed: on a trading day the opening second and the closing second
\* are 'regular', the second before the open is pre-open and the second after
\* the close is not 'regular'.
C5_InclusiveBoundaries ==
    (last.valid /\ last.is_trading_day) =>
        /\ (last.time = OpenSecond => last.session = "regular")
        /\ (last.time = CloseSecond => last.session = "regular")
        /\ (last.time = OpenSecond - 1 => last.session = "pre_market")
        /\ (last.time = CloseSecond + 1 => last.session # "regular")

\* C5 as amended: on a trading day the opening second is 'regular', the second
\* before it 'pre_market', the last second before the close 'regular', and the
\* closing second and the second after it 'after_hours'.
C5_HalfOpenBoundaries ==
    (last.valid /\ last.is_trading_day) =>
        /\ (last.time = OpenSecond => last.session = "regular")
        /\ (last.time = OpenSecond - 1 => last.session = "pre_market")
        /\ (last.time = CloseSecond - 1 => last.session = "regular")
        /\ (last.time = CloseSecond => last.session = "after_hours")
        /\ (last.time = CloseSecond + 1 => last.session = "after_hours")

C5_Witness ==
    /\ last.valid /\ last.is_trading_day
    /\ last.time = CloseSecond
    /\ last.session = "after_hours"

\* C6: a 'regular' cycle stores rows of source kind live; a cycle in the closing
\* window (close <= t <= close + 2h on a trading day) stores rows of kind
\* closing at one fixed bucket time; a cycle after the window or on a day
\* without trading stores rows of kind historical at another fixed bucket time.
C6_SourceMapping ==
    last.valid =>
        /\ (last.session = "regular" => last.source = "live")
        /\ ( ( /\ last.is_trading_day
               /\ CloseSecond <= last.time
               /\ last.time <= CloseSecond + ClosingWindow )
             => (last.source = "closing" /\ last.bucket_time # FixedBucketTime) )
        /\ ( (~last.is_trading_day \/ last.time > CloseSecond + ClosingWindow)
             => (last.source = "historical" /\ last.bucket_time = FixedBucketTime) )

MarketUnique ==
    \A r \in BagToSet(market) :
        /\ CopiesIn(r, market) = 1
        /\ \A q \in BagToSet(market) : q.date = r.date => q = r

CycleStatusWritten ==
    /\ Cardinality(MarketRowsFor(market, last.date)) = 1
    /\ \A r \in MarketRowsFor(market, last.date) :
          CopiesIn(r, market) = 1 /\ r.last_scraped = last.at

\* C7: no run of cycles and daily_maintenance leaves two MarketStatus rows for
\* one date, and every completed cycle, whatever it fetched, leaves exactly one
\* row for its scrape_date with last_scraped set by that cycle.
C7_MarketStatusPerDate ==
    /\ []MarketUnique
    /\ [][ncycles' # ncycles => CycleStatusWritten']_vars

C7_Witness ==
    /\ nmaint > 0
    /\ last.valid
    /\ last.batch = <<>>
    /\ BagCardinality(market) >= 2
    /\ \E r \in MarketRowsFor(market, last.date) : r.last_scraped = last.at

\* C8: after a cycle the MarketStatus row of its scrape_date exists and has
\* is_market_open = (the session is 'regular' and the cycle saved a record).
C8_OpenFlag ==
    last.valid =>
        /\ MarketRowsFor(market, last.date) # {}
        /\ \A r \in MarketRowsFor(market, last.date) :
              r.is_market_open = (last.session = "regular" /\ last.records_saved > 0)

C8_Witness ==
    /\ last.valid
    /\ last.session = "regular"
    /\ last.records_saved >= 3
    /\ \E r \in MarketRowsFor(market, last.date) : r.is_market_open

\* C9: when the save of a record fails, every record of the batch is still
\* attempted and records_saved is the number of rows the cycle inserted.
C9_PartialSuccess ==
    last.valid =>
        /\ last.attempted = Len(last.batch)
        /\ last.records_saved = RowCount - last.rows_before

C9_Witness ==
    /\ last.valid
    /\ last.faults.failAt = {1}
    /\ last.fresh
    /\ Len(last.batch) = 2
    /\ last.records_saved = 1

\* C10: whatever fails in a cycle, scrape_24x7 returns a result with success,
\* records_saved and message, and the cron endpoint answers 200 with
\* records_saved, message and the result; nothing is raised.
C10_StructuredResult ==
    last.valid =>
        /\ ~last.raised
        /\ {"success", "records_saved", "message"} \subseteq Scrape24x7(last).fields
        /\ CronSimpleScrape(last).status_code = 200
        /\ {"records_saved", "message"} \subseteq CronSimpleScrape(last).fields
        /\ "success" \in CronSimpleScrape(last).data

C10_Witness ==
    /\ last.valid
    /\ last.emergency
    /\ last.faults.company /\ last.faults.market
    /\ last.faults.failAt # {}
    /\ last.records_saved < Len(last.batch)

SymbolsOf(seq) == { seq[k].symbol : k \in 1..Len(seq) }

\* C11: the top-gainers list is non-increasing in percentage change with every
\* entry above zero, the top-losers list non-decreasing with every entry below
\* zero, a stored row with a zero or null percentage change is in neither list,
\* and the two lists of one snapshot share no symbol.
C11_Ranking ==
    /\ resp.view = "top_gainers" =>
          /\ \A k \in 1..Len(resp.data) :
                HasChange(resp.data[k]) /\ ChangeOf(resp.data[k]) > 0
          /\ \A k \in 1..(Len(resp.data) - 1) :
                ChangeOf(resp.data[k]) >= ChangeOf(resp.data[k + 1])
    /\ resp.view = "top_losers" =>
          /\ \A k \in 1..Len(resp.data) :
                HasChange(resp.data[k]) /\ ChangeOf(resp.data[k]) < 0
          /\ \A k \in 1..(Len(resp.data) - 1) :
                ChangeOf(resp.data[k]) <= ChangeOf(resp.data[k + 1])
    /\ now < Horizon =>
          \A g \in {TopGainersView(stock, now).data} :
          \A l \in {TopLosersView(stock, now).data} :
              /\ SymbolsOf(g) \cap SymbolsOf(l) = {}
              /\ \A r \in BagToSet(stock) :
                    (r.percentage_change \in {None, {0}})
                        => \A k \in 1..Len(g \o l) : (g \o l)[k] # r

C11_Witness ==
    /\ resp.view = "top_gainers"
    /\ Len(resp.data) >= 3
    /\ ChangeOf(resp.data[1]) > ChangeOf(resp.data[2])
    /\ Len(TopLosersView(stock, resp.at).data) >= 2
    /\ \E r \in BagToSet(stock) : r.percentage_change = None


\* the bound the limit parameter stands for: clamp(limit, 1, 20), 10 when it
\* is missing or no integer
ClampedLimit(param) ==
    IF param.kind # "int" THEN DefaultLimit
    ELSE IF param.n < 1 THEN 1
    ELSE IF param.n > LimitCap THEN LimitCap
    ELSE param.n

\* C12: whatever the limit parameter is (missing, no integer, 0, negative,
\* above 20), a top-gainers or top-losers request does not fail because of it
\* and returns at most clamp(limit, 1, 20) entries (10 by default).
C12_LimitClamped ==
    resp.view \in {"top_view_gainers", "top_view_losers"} =>
        /\ resp.status_code # 500
        /\ Len(resp.data) <= ClampedLimit(resp.limit)


\* the dates before today that have rows, and the most recent of them
EarlierDates(dates, today) == { d \in dates : d < today }

MostRecent(dates) == CHOOSE d \in dates : \A e \in dates : e <= d

\* the rows of the last scrape of a date
SnapshotOn(st, date) ==
    { r \in RowsOn(st, date) : \A q \in RowsOn(st, date) : q.scrape_time <= r.scrape_time }

ElementsOf(seq) == { seq[k] : k \in 1..Len(seq) }

\* C13: a latest-stocks request made when today has no rows but an earlier
\* date has returns exactly the rows of the most recent earlier date's
\* snapshot, echoes that date and says the data is not today's; when today has
\* rows, it returns only today's rows.
C13_LatestFallback ==
    /\ resp.view = "latest" =>
          \A today \in {DayOf(resp.at)} :
          \A earlier \in {EarlierDates({ r.scrape_date : r \in BagToSet(stock) }, today)} :
              /\ (RowsOn(stock, today) = {} /\ earlier # {}) =>
                    /\ resp.date = {MostRecent(earlier)}
                    /\ ElementsOf(resp.data) = SnapshotOn(stock, MostRecent(earlier))
                    /\ Len(resp.data) = Cardinality(ElementsOf(resp.data))
                    /\ resp.reason = {"No data for today"}
                    /\ resp.message # None
              /\ RowsOn(stock, today) # {} =>
                    /\ resp.date = {today}
                    /\ resp.reason = None
                    /\ \A r \in ElementsOf(resp.data) : r.scrape_date = today
    /\ resp.view = "latest_api" =>
          \A today \in {UtcDate(resp.at)} :
          \A earlier \in {EarlierDates({ r.date : r \in daily }, today)} :
              /\ (DailyRowsOn(daily, today) = {} /\ earlier # {}) =>
                    /\ resp.date = {MostRecent(earlier)}
                    /\ resp.rows = DailyRowsOn(daily, MostRecent(earlier))
                    /\ resp.is_today_data = FALSE
              /\ DailyRowsOn(daily, today) # {} =>
                    /\ resp.date = {today}
                    /\ resp.is_today_data = TRUE
                    /\ resp.rows = DailyRowsOn(daily, today)

C13_Witness ==
    /\ resp.view = "latest"
    /\ RowsOn(stock, DayOf(resp.at)) = {}
    /\ Len(resp.data) >= 2
    /\ resp.date # {DayOf(resp.at)}


\* the rows of a snapshot that rise (gainers) or fall
MoversIn(rows, gainers) ==
    { r \in rows : \E v \in r.percentage_change : IF gainers THEN v > 0 ELSE v < 0 }

\* C14: a top-gainers or top-losers request made when today has no rows but
\* an earlier date has serves the ranking of the most recent earlier date and
\* names that date; the ranking is not empty while that earlier snapshot
\* holds rows with a change of the requested sign.
C14_TopMoversFallback ==
    resp.view \in {"top_gainers", "top_losers"} =>
        \A today \in {UtcDate(resp.at)} :
        \A earlier \in {EarlierDates({ r.scrape_date : r \in BagToSet(stock) }, today)} :
            (RowsOn(stock, today) = {} /\ earlier # {}) =>
                /\ resp.date = {MostRecent(earlier)}
                /\ MoversIn(SnapshotOn(stock, MostRecent(earlier)),
                            resp.view = "top_gainers") # {}
                       => resp.data # <<>>


\* C15: with an empty store (no observation row, no MarketStatus row) a read
\* request is answered with a success status, no data and an explanatory
\* message, never with an error status.
C15_EmptyStore ==
    (resp.view # "none" /\ daily = {} /\ BagToSet(stock) = {} /\ BagToSet(market) = {}) =>
        /\ resp.status_code = 200
        /\ resp.count = 0
        /\ resp.message # None


\* C16: no step of a scrape cycle, scheduled check or maintenance task
\* deletes a stored observation row: every StockData and DailyStockData row
\* of a state is still stored in the next state.
C16_PreserveHistory ==
    [][ /\ daily \subseteq daily'
        /\ \A r \in BagToSet(stock) : CopiesIn(r, stock) <= CopiesIn(r, stock') ]_vars


CompanySymbols(comps) == { c.symbol : c \in comps }

\* C17: the Company table holds at most one row per normalised (trimmed,
\* upper-cased) symbol and only normalised symbols; no step removes a
\* company; a known symbol seen under another name keeps its one row, with
\* the name changed, and the table grows only by symbols it did not hold.
C17_CompanyIdentity ==
    /\ [](\A c \in companies :
            /\ Upper(c.symbol) = c.symbol
            /\ c.symbol # ""
            /\ \A d \in companies : Upper(d.symbol) = Upper(c.symbol) => d = c)
    /\ [][ /\ CompanySymbols(companies) \subseteq CompanySymbols(companies')
           /\ Cardinality(companies') - Cardinality(companies)
                 = Cardinality(CompanySymbols(companies') \ CompanySymbols(companies)) ]_vars

C17_Witness ==
    /\ Cardinality(companies) = Cardinality(Symbols)
    /\ \E c \in companies : c.name = "Renamed"


TriesIn(trace) == Cardinality({ k \in 1..Len(trace) : trace[k] = "try" })

\* the first attempt that yields usable data, max + 1 when there is none
FirstUsable(usable, max) ==
    IF \E k \in 1..max : usable[k]
    THEN CHOOSE k \in 1..max : usable[k] /\ \A j \in 1..(k - 1) : ~usable[j]
    ELSE max + 1

\* C18: a price fetch makes at most N attempts (3 in the client and in the
\* processor, max_retries in scrape_with_retry), stops at the first attempt
\* with usable data, waits only between two attempts, and ends with data, a
\* fallback dataset or an empty result whatever the source does.
C18_BoundedRetry ==
    resp.view = "fetch" =>
        /\ TriesIn(resp.trace) <= resp.max
        /\ TriesIn(resp.trace) = resp.attempts
        /\ TriesIn(resp.trace) =
              (IF FirstUsable(resp.usable, resp.max) <= resp.max
               THEN FirstUsable(resp.usable, resp.max) ELSE resp.max)
        /\ \A k \in 1..Len(resp.trace) :
              resp.trace[k] = "sleep" =>
                  /\ k > 1 /\ resp.trace[k - 1] = "try"
                  /\ k < Len(resp.trace) /\ resp.trace[k + 1] = "try"
        /\ IF FirstUsable(resp.usable, resp.max) <= resp.max
           THEN resp.result \in {"data", "fallback"}
           ELSE resp.result \in {"fallback", "empty"}

C18_Witness ==
    /\ resp.view = "fetch"
    /\ resp.loop = "client"
    /\ resp.trace = <<"try", "sleep", "try", "sleep", "try">>
    /\ resp.result = "fallback"


\* C19: a row stored from the emergency dataset is told apart from a real
\* observation: it is not stored under the source kinds 'live' or
\* 'historical' of the day's ordinary observations.
C19_SyntheticLabelled ==
    \A r \in BagToSet(stock) :
        r.symbol \in EmergencySymbols => r.data_source \notin {"live", "historical"}


\* C20: no stored StockData row has an empty symbol or no last traded price:
\* a raw record lacking a symbol or a last traded price is dropped.
C20_DropPolicy ==
    \A r \in BagToSet(stock) : r.symbol # "" /\ r.last_traded_price # None


\* C21: a raw record with previous close 0 and no percentage change of its
\* own is normalised without an exception to a record whose percentage
\* change is null, never 0.
C21_ZeroPreviousClose ==
    (/\ resp.view = "normalise"
     /\ resp.fn \in {"direct", "format_item", "process_today"}
     /\ resp.raw.prev = RawNum(0)
     /\ resp.raw.pct = RawAbsent
     /\ resp.out # <<>>)
        => resp.out[1].percentageChange = None


\* C22: a raw record with a symbol and a last price is normalised to a record
\* with a percentage change whenever the change is supplied as a number, or
\* the previous close is a number other than 0; when the supplied change is
\* absent, a sentinel or no number, the change is (last - prev) / prev * 100.
C22_ChangeResolved ==
    (/\ resp.view = "normalise"
     /\ resp.fn \in {"direct", "unofficial"}
     /\ resp.raw.symbol # ""
     /\ resp.raw.ltp.k = "num"
     /\ \/ resp.raw.pct.k = "num"
        \/ resp.raw.prev.k = "num" /\ resp.raw.prev.n # 0)
        => /\ resp.out # <<>>
           /\ \A rec \in {resp.out[1]} :
                 /\ rec.percentageChange # None
                 /\ resp.raw.pct.k # "num" =>
                       rec.percentageChange = {DerivedChange(resp.raw.ltp.n, resp.raw.prev.n)}


\* the records of a list that are sound by themselves: a symbol, a price and
\* a change other than 0, supplied or derived
SoundRecords(raw_list) ==
    { k \in 1..Len(raw_list) :
        /\ DirectFormatStockData(raw_list[k]) # <<>>
        /\ \E v \in DirectFormatStockData(raw_list[k])[1].percentageChange : v # 0 }

\* C23: a record of a fetched list that cannot be validated affects only
\* itself: every sound record of the list is returned, normalised, among the
\* gainers when its change is positive and among the losers when negative.
C23_BatchSurvives ==
    resp.view = "batch" =>
        \A k \in SoundRecords(resp.raw) :
            \A rec \in {DirectFormatStockData(resp.raw[k])[1]} :
                IF \E v \in rec.percentageChange : v > 0
                THEN rec \in ElementsOf(resp.out.gainers)
                ELSE rec \in ElementsOf(resp.out.losers)


C25_LatestIsMostRecentCycle ==
    (/\ resp.view \in {"latest", "top_gainers", "top_losers"}
     /\ last.valid
     /\ last.records_saved > 0
     /\ {last.date} = resp.date
     /\ (resp.view = "latest" => last.date = DayOf(resp.at)))
        => /\ \A r \in ElementsOf(resp.data) :
                 /\ r.scrape_time = last.bucket_time
                 /\ r.data_source = last.source
           /\ resp.view = "latest" => resp.data # <<>>


\* C26: after a cycle, the stored row of every identity (company, date,
\* bucket, source kind) the cycle reconciled holds the values of that cycle's
\* record, also when the identity had a stored row before.
C26_OverwriteByLatest ==
    last.valid =>
        \A k \in 1..Len(last.batch) :
            \A item \in {last.batch[k]} :
            \A r \in BagToSet(stock) :
                (/\ item.symbol # ""
                 /\ SameIdentity(r, Upper(item.symbol), last.date, last.bucket_time,
                                 last.source))
                    => /\ r.percentage_change = ParseDecimal(item.percentageChange)
                       /\ r.last_traded_price = ParseDecimal(item.ltp)


\* the symbols of the records scrape_demo_data generates (the one the model keeps)
DemoSymbols == { ScrapeDemoData(rnd).items[k].symbol :
                   rnd \in DemoChanges, k \in 1..Len(ScrapeDemoData(0).items) }

\* C27: no run stores a demo record for a date that had real rows before the
\* run: a step that adds a demo row adds it only for a date without stored
\* real rows, so those rows are not replaced.
C27_RealNotReplacedByDemo ==
    [][ \A r \in daily' \ daily :
            r.company \in DemoSymbols =>
                ~ \E q \in daily : q.date = r.date /\ q.company \notin DemoSymbols ]_vars


\* C28: when the two threads of start() have finished and one of them saved
\* today's rows, today's rows are stored, and there is at most one
\* DailyStockData row per company and date.
C28_StartupRace ==
    /\ \A r, q \in daily : (r.company = q.company /\ r.date = q.date) => r = q
    /\ (/\ \A w \in Workers : wk[w].pc = "done"
        /\ \E w \in Workers : wk[w].saved_count > 0)
          => DailyRowsOn(daily, DayOf(now)) # {}


\* C29: the date a read endpoint treats as today at an instant is the
\* scrape_date a cycle started at that instant stamps on its rows, so the
\* rows of that date are the ones the read answers from.
C29_AgreementOnToday ==
    resp # NoResponse =>
    \A scrape_date \in {NewProcessor(resp.at, TRUE).scrape_date} :
       /\ resp.view \in {"status", "top_gainers", "top_losers"}
             => resp.date = {scrape_date}
       /\ (resp.view = "latest" /\ RowsOn(stock, scrape_date) # {})
             => resp.date = {scrape_date}


\* C30: every stored StockData row has is_closing_data exactly when its
\* data_source is closing or historical; a live row carries a date and time
\* of the regular session of a trading day (11:00 <= t < 15:00); every other
\* row carries the fixed time 15:30; and a cycle's is_trading_day is false
\* exactly when its session is weekend.
C30_Provenance ==
    /\ [](\A r \in BagToSet(stock) :
          /\ r.is_closing_data = (r.data_source \in {"closing", "historical"})
          /\ r.data_source = "live" =>
                /\ IsTradingDay(r.scrape_date)
                /\ MarketOpenHour * 3600 <= r.scrape_time
                /\ r.scrape_time < MarketCloseHour * 3600
                /\ DetermineMarketSession(r.scrape_date, r.scrape_time) = "regular"
          /\ r.data_source # "live" => r.scrape_time = FixedBucketTime)
    /\ [](last.valid => (last.is_trading_day = FALSE <=> last.session = "weekend"))
    /\ [][ \A r \in BagToSet(stock') \ BagToSet(stock) :
              r.data_source = "live" <=> last'.session = "regular" ]_vars

C30_Witness ==
    /\ \E r \in BagToSet(stock) : r.data_source = "live"
    /\ \E r \in BagToSet(stock) : r.data_source = "historical" /\ r.is_closing_data
    /\ last.valid /\ last.session = "weekend" /\ last.records_saved > 0

====
